---- MODULE Spec2Model ----
(***************************************************************************)
(* A model of the dbgrs debugger core: the debug event loop of main.rs,    *)
(* the hardware breakpoint manager of breakpoint.rs, the event translation *)
(* of event.rs and the Process registry of process.rs.                     *)
(*                                                                         *)
(* Register values that the code treats as bit vectors (Dr6, Dr7, EFlags)  *)
(* are modelled as the set of indices of their 1 bits, so that a value     *)
(* keeps its width (see Bits) and shifts, masks and ors are computed as    *)
(* the code computes them.                                                 *)
(***************************************************************************)
EXTENDS Integers, Sequences, FiniteSets, TLC

\* ------------------------------------------------------------------ bounds
MaxEvents == 4
MaxCmds == 3
MaxBpCmds == 6
MaxAddr == 2
MaxTid == 2
MaxModules == 2
MaxSize == 2
MaxMem == 3
MaxLen == 2
MaxSteps == 3
MaxExports == 2
MaxLoaded == 3
MaxAdds == 2
MaxRoots == 2
MaxLines == 5

\* ------------------------------------------------------- program constants
DR7_LEN_BIT == <<19, 23, 27, 31>>
DR7_RW_BIT == <<17, 21, 25, 29>>
DR7_LE_BIT == <<0, 2, 4, 6>>
DR7_GE_BIT == <<1, 3, 5, 7>>
DR6_B_BIT == <<0, 1, 2, 3>>
DR7_LEN_SIZE == 2
DR7_RW_SIZE == 2
EFLAG_RF == 16
TRAP_FLAG_BIT == 8
MaxBreakpoints == 4

DBG_CONTINUE == "DBG_CONTINUE"
DBG_EXCEPTION_NOT_HANDLED == "DBG_EXCEPTION_NOT_HANDLED"
EXCEPTION_SINGLE_STEP == "EXCEPTION_SINGLE_STEP"
EXCEPTION_ACCESS_VIOLATION == "EXCEPTION_ACCESS_VIOLATION"
IMAGE_FILE_MACHINE_AMD64 == "AMD64"
IMAGE_FILE_MACHINE_I386 == "I386"

\* Option<T>, Result<T, E> and a call that panics instead of returning
None == [some |-> FALSE]
Some(x) == [some |-> TRUE, val |-> x]
Ok(x) == [ok |-> TRUE, val |-> x]
Err(e) == [ok |-> FALSE, err |-> e]
Returned(x) == [panicked |-> FALSE, val |-> x]
Panicked(msg) == [panicked |-> TRUE, msg |-> msg]
NotCalled == [called |-> FALSE]
\* a REPL command as read, and whether its expression (if any) evaluated
Cmd(name, evaluated) == [name |-> name, evaluated |-> evaluated]
NoCmd == Cmd("none", TRUE)

\* ------------------------------------------------------------ input domains
Tids == 1..MaxTid
MainTid == 1
Addrs == 1..MaxAddr
\* base addresses at which the loader maps the executable and the DLLs
ExeBases == {100}
ModBases == {100, 101}
\* what the debuggee's memory holds at a module base: whether the DOS and NT
\* headers can be read, the machine field of the file header, whether the
\* arrays of the export directory can be read in full, and SizeOfImage
Images == [headers : BOOLEAN,
           machine : {IMAGE_FILE_MACHINE_AMD64, IMAGE_FILE_MACHINE_I386},
           exports : BOOLEAN,
           size : 1..MaxSize]

VARIABLES
    pc,                    \* "wait" | "repl" | "done" | "quit" | "panic"
    breakpoints,           \* BreakpointManager.breakpoints
    thread_list,           \* Process.thread_list
    module_list,           \* Process.module_list
    expect_step_exception, \* main_debugger_loop local
    os_event,              \* the DEBUG_EVENT the OS delivered (with its cause)
    debug_event,           \* the DebugEvent wait_for_next_debug_event returned
    ctx,                   \* main_debugger_loop's copy of the event thread's CONTEXT
    continue_status,       \* main_debugger_loop local
    is_exit,               \* main_debugger_loop local
    bp_index,              \* result of was_breakpoint_hit in the handler, or "NotCalled"
    os_threads,            \* threads of the debuggee the OS can open
    os_ctx,                \* the CONTEXT of every thread, as the OS holds it
    announced,             \* threads announced by CreateProcess/CreateThread, not yet by ExitThread
    written,               \* threads whose CONTEXT the last apply_breakpoints wrote
    last_cmd,              \* the last REPL command executed
    panic_msg,             \* message of the panic that ended the session
    nevents,               \* debug events delivered so far
    ncmds,                 \* bp and bc commands executed so far
    os_images,             \* images mapped in the debuggee: [base, size] records
    last_continue,         \* the ContinueDebugEvent call of this iteration, or NotCalled
    args,                  \* arguments of a function called on its own
    result                 \* what that call returned

vars == <<pc, breakpoints, thread_list, module_list, expect_step_exception,
          os_event, debug_event, ctx, continue_status, is_exit, bp_index,
          os_threads, os_ctx, announced, written, last_cmd, panic_msg,
          nevents, ncmds, os_images, last_continue, args, result>>

\* --------------------------------------------------------- bit vector values
Bits(w) == 0..(w - 1)
ShiftLeft(v, n, w) == {i + n : i \in v} \cap Bits(w)
ShiftRight(v, n) == {i - n : i \in {j \in v : j >= n}}
BitNot(v, w) == Bits(w) \ v
\* the bit vector of a small number (0 or 1 are the only values the code sets)
OfNat(n) == {i \in 0..3 : (n \div (2 ^ i)) % 2 = 1}

\* a variant of set_bits whose mask runs from start_bit down to bit 0
set_bits_mask_to_bit0(val, set_val, start_bit, bit_count, w) ==
    LET max_bits == w
        mask == ShiftRight(Bits(w), max_bits - 1 - start_bit)
        inv_mask == BitNot(mask, w)
        cleared == val \cap inv_mask
    IN cleared \cup ShiftLeft(OfNat(set_val), start_bit + 1 - bit_count, w)

\* fn set_bits<T: PrimInt>(val, set_val, start_bit, bit_count), T of w bits
set_bits(val, set_val, start_bit, bit_count, w) ==
    LET max_bits == w
        mask1 == ShiftLeft(Bits(w), max_bits - bit_count, w)
        mask == ShiftRight(mask1, max_bits - 1 - start_bit)
        inv_mask == BitNot(mask, w)
        cleared == val \cap inv_mask
    IN cleared \cup ShiftLeft(OfNat(set_val), start_bit + 1 - bit_count, w)

\* fn get_bit<T: PrimInt>(val, bit_index)
get_bit(val, bit_index) ==
    LET mask == ShiftLeft({0}, bit_index, 64)
        masked_val == val \cap mask
    IN masked_val # {}

ZeroContext == [Dr0 |-> 0, Dr1 |-> 0, Dr2 |-> 0, Dr3 |-> 0,
                Dr6 |-> {}, Dr7 |-> {}, EFlags |-> {}]

\* ------------------------------------------------------- BreakpointManager
\* a variant of get_free_id that numbers breakpoints by the length of the list
get_free_id_by_count(bps) ==
    IF Len(bps) >= 4 THEN Panicked("Too many breakpoints!")
    ELSE Returned(Len(bps))

\* fn get_free_id(&self) -> u32
get_free_id(bps) ==
    LET Scan[i \in 0..4] ==
            IF i = 4 THEN Panicked("Too many breakpoints!")
            ELSE IF \A k \in 1..Len(bps) : bps[k].id # i THEN Returned(i)
            ELSE Scan[i + 1]
    IN Scan[0]

\* Vec::sort_by(|a, b| a.id.cmp(&b.id)): a stable sort by id
RECURSIVE SortById(_)
SortById(s) ==
    IF Len(s) <= 1 THEN s
    ELSE LET rest == SortById(SubSeq(s, 1, Len(s) - 1))
             x == s[Len(s)]
             pos == Cardinality({k \in 1..Len(rest) : rest[k].id <= x.id})
         IN SubSeq(rest, 1, pos) \o <<x>> \o SubSeq(rest, pos + 1, Len(rest))

\* fn add_breakpoint(&mut self, addr: u64); panics when get_free_id panics
add_breakpoint(bps, addr) ==
    LET id == get_free_id(bps)
    IN IF id.panicked THEN id
       ELSE Returned(SortById(Append(bps, [addr |-> addr, id |-> id.val])))

\* a variant of clear_breakpoint that removes the breakpoint at list
\* position id
clear_breakpoint_at_position(bps, id) ==
    IF id + 1 \in 1..Len(bps)
    THEN SubSeq(bps, 1, id) \o SubSeq(bps, id + 2, Len(bps))
    ELSE bps

\* fn clear_breakpoint(&mut self, id: u32)
clear_breakpoint(bps, id) ==
    LET Keep(x) == x.id # id
    IN SelectSeq(bps, Keep)

\* fn was_breakpoint_hit(&self, thread_context: &CONTEXT) -> Option<u32>
was_breakpoint_hit(bps, thread_context) ==
    LET Scan[idx \in 0..Len(bps)] ==
            IF idx = Len(bps) THEN None
            ELSE IF get_bit(thread_context.Dr6, DR6_B_BIT[idx + 1]) THEN Some(idx)
            ELSE Scan[idx + 1]
    IN Scan[0]

\* the slot loop of apply_breakpoints, `for idx in 0..4 { ... }`, on one CONTEXT
RECURSIVE ApplySlots(_, _, _)
ApplySlots(bps, c, idx) ==
    IF idx = 4 THEN c
    ELSE IF Len(bps) > idx
    THEN LET d1 == set_bits(c.Dr7, 0, DR7_LEN_BIT[idx + 1], DR7_LEN_SIZE, 64)
             d2 == set_bits(d1, 0, DR7_RW_BIT[idx + 1], DR7_RW_SIZE, 64)
             d3 == set_bits(d2, 1, DR7_LE_BIT[idx + 1], 1, 64)
             c1 == [c EXCEPT !.Dr7 = d3]
             c2 == CASE idx = 0 -> [c1 EXCEPT !.Dr0 = bps[idx + 1].addr]
                     [] idx = 1 -> [c1 EXCEPT !.Dr1 = bps[idx + 1].addr]
                     [] idx = 2 -> [c1 EXCEPT !.Dr2 = bps[idx + 1].addr]
                     [] idx = 3 -> [c1 EXCEPT !.Dr3 = bps[idx + 1].addr]
                     [] OTHER -> c1
         IN ApplySlots(bps, c2, idx + 1)
    ELSE \* disable the first unused slot, then `break`
         [c EXCEPT !.Dr7 = set_bits(c.Dr7, 0, DR7_LE_BIT[idx + 1], 1, 64)]

\* a variant of ApplyThread that sets the resume flag in every thread
ApplyThread_rf_every_thread(bps, c, thread_id, resume_thread_id) ==
    LET c1 == ApplySlots(bps, c, 0)
    IN [c1 EXCEPT !.EFlags = set_bits(c1.EFlags, 1, EFLAG_RF, 1, 32)]

\* a variant of ApplyThread that builds the CONTEXT it writes on the flags
\* of the event, without the trap flag that `t` has written since
ApplyThread_flags_of_event(bps, c, thread_id, resume_thread_id) ==
    LET c1 == ApplySlots(bps, [c EXCEPT !.EFlags = @ \ {TRAP_FLAG_BIT}], 0)
    IN IF thread_id = resume_thread_id
       THEN [c1 EXCEPT !.EFlags = set_bits(c1.EFlags, 1, EFLAG_RF, 1, 32)]
       ELSE c1

\* the body of apply_breakpoints' thread loop after a successful
\* GetThreadContext: the CONTEXT handed to SetThreadContext
ApplyThread(bps, c, thread_id, resume_thread_id) ==
    LET c1 == ApplySlots(bps, c, 0)
    IN IF thread_id = resume_thread_id
       THEN [c1 EXCEPT !.EFlags = set_bits(c1.EFlags, 1, EFLAG_RF, 1, 32)]
       ELSE c1

\* GetThreadContext (SetThreadContext) succeeds on the threads of `threads`
ThreadContextOk(threads, thread_id) == thread_id \in threads

\* a variant of apply_breakpoints that leaves the thread loop at the first
\* thread whose context it cannot get or set
RECURSIVE apply_breakpoints_stop_at_failure(_, _, _, _, _, _, _)
apply_breakpoints_stop_at_failure(bps, tl, resume_thread_id, gettable, settable, octx, wr) ==
    IF tl = <<>> THEN [ctx |-> octx, written |-> wr]
    ELSE LET thread_id == Head(tl)
         IN IF ~ThreadContextOk(gettable, thread_id) \/ ~ThreadContextOk(settable, thread_id)
            THEN [ctx |-> octx, written |-> wr]
            ELSE apply_breakpoints_stop_at_failure(bps, Tail(tl), resume_thread_id,
                     gettable, settable,
                     [octx EXCEPT ![thread_id] =
                          ApplyThread(bps, octx[thread_id], thread_id, resume_thread_id)],
                     wr \cup {thread_id})

\* fn apply_breakpoints(&mut self, process, resume_thread_id, _memory_source):
\* the contexts and the set of written threads after the loop over
\* process.iterate_threads(); GetThreadContext succeeds on the threads of
\* gettable and SetThreadContext on those of settable
RECURSIVE apply_breakpoints(_, _, _, _, _, _, _)
apply_breakpoints(bps, tl, resume_thread_id, gettable, settable, octx, wr) ==
    IF tl = <<>> THEN [ctx |-> octx, written |-> wr]
    ELSE LET thread_id == Head(tl)
         IN IF ~ThreadContextOk(gettable, thread_id)
            THEN \* "Could not get thread context": continue
                 apply_breakpoints(bps, Tail(tl), resume_thread_id, gettable, settable,
                                   octx, wr)
            ELSE IF ~ThreadContextOk(settable, thread_id)
            THEN \* "Could not set thread context"
                 apply_breakpoints(bps, Tail(tl), resume_thread_id, gettable, settable,
                                   octx, wr)
            ELSE apply_breakpoints(bps, Tail(tl), resume_thread_id, gettable, settable,
                     [octx EXCEPT ![thread_id] =
                          ApplyThread(bps, octx[thread_id], thread_id, resume_thread_id)],
                     wr \cup {thread_id})

\* ------------------------------------------------------------------ Process
\* fn add_thread(&mut self, thread_id: u32)
add_thread(tl, thread_id) == Append(tl, thread_id)

\* fn remove_thread(&mut self, thread_id: u32)
remove_thread(tl, thread_id) ==
    LET Keep(x) == x # thread_id
    IN SelectSeq(tl, Keep)

\* The debuggee's memory as a MemorySource sees it: source.readable is the set
\* of addresses ReadProcessMemory can read and source.bytes their contents.
\* ReadProcessMemory(hprocess, address, buffer, len, &bytes_read): fails
\* (result 0) unless the whole range is readable; on failure bytes_read is
\* the length of the readable prefix, which both callers ignore.
RECURSIVE ReadablePrefix(_, _, _)
ReadablePrefix(source, address, len) ==
    IF len = 0 \/ address \notin source.readable THEN 0
    ELSE 1 + ReadablePrefix(source, address + 1, len - 1)

ReadProcessMemory(source, address, len) ==
    [result |-> IF \A index \in 0..(len - 1) : address + index \in source.readable
                THEN 1 ELSE 0,
     bytes_read |-> ReadablePrefix(source, address, len),
     buffer |-> [index \in {k \in 0..(len - 1) : address + k \in source.readable} |->
                    source.bytes[address + index]]]

\* one turn of the while loop of LiveMemorySource::read_memory at `offset`,
\* given what ReadProcessMemory returned: the error, or the next offset and
\* the data with the bytes read filled in
ReadMemoryTurn(len, offset, data, r) ==
    IF r.result = 0 THEN Err("ReadProcessMemory failed")
    ELSE Ok([offset |-> IF r.bytes_read > 0 THEN offset + r.bytes_read ELSE offset + 1,
             data |-> [k \in 1..len |->
                          IF k - 1 - offset \in 0..(r.bytes_read - 1)
                          THEN Some(r.buffer[k - 1 - offset]) ELSE data[k]]])

\* the while loop of LiveMemorySource::read_memory from `offset` on
RECURSIVE ReadMemoryLoop(_, _, _, _, _)
ReadMemoryLoop(source, address, len, offset, data) ==
    IF ~(offset < len) THEN Ok(data)
    ELSE CHOOSE out \in
             {IF ~turn.ok THEN turn
              ELSE ReadMemoryLoop(source, address, len, turn.val.offset, turn.val.data) :
                 turn \in {ReadMemoryTurn(len, offset, data,
                               ReadProcessMemory(source, address + offset, len - offset))}} :
             TRUE

\* fn read_memory(&self, address, len) -> Result<Vec<Option<u8>>, &'static str>
read_memory(source, address, len) ==
    ReadMemoryLoop(source, address, len, 0, [k \in 1..len |-> None])

\* buffer.truncate(bytes_read) with bytes_read = 0 when ReadProcessMemory failed
TruncatedBuffer(r) ==
    [k \in 1..(IF r.result = 0 THEN 0 ELSE r.bytes_read) |-> r.buffer[k - 1]]

\* fn read_raw_memory(&self, address, len) -> Vec<u8>
read_raw_memory(source, address, len) ==
    TruncatedBuffer(ReadProcessMemory(source, address, len))

\* the little-endian value of the bytes of one item
RECURSIVE FromLeBytes(_)
FromLeBytes(raw) ==
    IF raw = <<>> THEN 0 ELSE Head(raw) + 256 * FromLeBytes(Tail(raw))

\* the while loop of read_memory_array: the items that lie whole in raw_bytes
ItemsOf(raw_bytes, element_size) ==
    [i \in 1..(Len(raw_bytes) \div element_size) |->
        FromLeBytes(SubSeq(raw_bytes, (i - 1) * element_size + 1, i * element_size))]

\* fn read_memory_array<T>(source, address, max_count), with
\* element_size = size_of::<T>()
read_memory_array(source, address, max_count, element_size) ==
    Ok(ItemsOf(read_raw_memory(source, address, max_count * element_size), element_size))

\* Ok(data[0]) after `let data = read_memory_array(..)?`
FirstItem(data) ==
    IF ~data.ok THEN Returned(data)
    ELSE IF Len(data.val) = 0
    THEN Panicked("index out of bounds: the len is 0 but the index is 0")
    ELSE Returned(Ok(data.val[1]))

\* fn read_memory_data<T>(source, address) with element_size = size_of::<T>()
read_memory_data_sized(source, address, element_size) ==
    FirstItem(read_memory_array(source, address, 1, element_size))

\* fn read_memory_data<T>(source, address): read_raw_memory returns no bytes
\* when ReadProcessMemory fails, read_memory_array then returns Ok(vec![]),
\* and `data[0]` panics
read_memory_data(readable, value) ==
    IF readable THEN Returned(Ok(value))
    ELSE Panicked("index out of bounds: the len is 0 but the index is 0")

\* fn read_memory_full_array<T>(source, address, count)
read_memory_full_array(readable, value) ==
    IF readable THEN Ok(value) ELSE Err("Could not read all items")

\* Module::from_memory_view(module_address, module_name, memory_source)
from_memory_view(module_address, image) ==
    LET pe_header == read_memory_data(image.headers, image.machine)
        exports == read_memory_full_array(image.exports, <<>>)
    IN IF pe_header.panicked THEN pe_header
       ELSE IF pe_header.val.val # IMAGE_FILE_MACHINE_AMD64
       THEN Returned(Err("Unsupported machine architecture for module"))
       ELSE IF ~exports.ok THEN Returned(exports)
       ELSE Returned(Ok([address |-> module_address, size |-> image.size]))

\* fn add_module(&mut self, address, name, memory_source) -> Result<&Module, _>
add_module(ml, address, image) ==
    LET module == from_memory_view(address, image)
    IN IF module.panicked THEN module
       ELSE IF ~module.val.ok THEN module
       ELSE Returned(Ok(Append(ml, module.val.val)))

\* fn contains_address(&self, address: u64) -> bool
contains_address(module, address) ==
    LET end == module.address + module.size
    IN module.address <= address /\ address < end

\* fn get_containing_module_mut(&mut self, address: u64) -> Option<&mut Module>:
\* the first module of the list that contains the address
get_containing_module_mut(ml, address) ==
    LET Scan[k \in 1..(Len(ml) + 1)] ==
            IF k = Len(ml) + 1 THEN None
            ELSE IF contains_address(ml[k], address) THEN Some(k)
            ELSE Scan[k + 1]
    IN Scan[1]

\* fn load_module_at_address(process, memory_source, base_address, module_name):
\* `process.add_module(...).unwrap()`
load_module_at_address(ml, base_address, image) ==
    LET r == add_module(ml, base_address, image)
    IN IF r.panicked THEN r
       ELSE IF ~r.val.ok
       THEN Panicked("called Result::unwrap() on an Err value")
       ELSE Returned(r.val.val)

\* --------------------------------------------------------------- event.rs
\* a variant of wait_for_next_debug_event that reports CREATE_THREAD_DEBUG_EVENT
\* as DebugEvent::CreateThread
wait_for_next_debug_event_create_thread(ev) ==
    CASE ev.code = "EXCEPTION_DEBUG_EVENT" ->
            [kind |-> "Exception", exception_code |-> ev.exception_code]
      [] ev.code = "CREATE_THREAD_DEBUG_EVENT" ->
            [kind |-> "CreateThread", thread_id |-> ev.thread_id]
      [] ev.code = "CREATE_PROCESS_DEBUG_EVENT" ->
            [kind |-> "CreateProcess", exe_base |-> ev.base]
      [] ev.code = "EXIT_THREAD_DEBUG_EVENT" -> [kind |-> "Other", msg |-> "ExitThread"]
      [] ev.code = "EXIT_PROCESS_DEBUG_EVENT" -> [kind |-> "ExitProcess"]
      [] ev.code = "LOAD_DLL_DEBUG_EVENT" ->
            [kind |-> "LoadModule", module_base |-> ev.base]
      [] ev.code = "UNLOAD_DLL_DEBUG_EVENT" -> [kind |-> "Other", msg |-> "UnloadDll"]

\* fn wait_for_next_debug_event: the DebugEvent built from the DEBUG_EVENT
wait_for_next_debug_event(ev) ==
    CASE ev.code = "EXCEPTION_DEBUG_EVENT" ->
            [kind |-> "Exception", exception_code |-> ev.exception_code]
      [] ev.code = "CREATE_THREAD_DEBUG_EVENT" -> [kind |-> "Other", msg |-> "CreateThread"]
      [] ev.code = "CREATE_PROCESS_DEBUG_EVENT" ->
            [kind |-> "CreateProcess", exe_base |-> ev.base]
      [] ev.code = "EXIT_THREAD_DEBUG_EVENT" -> [kind |-> "Other", msg |-> "ExitThread"]
      [] ev.code = "EXIT_PROCESS_DEBUG_EVENT" -> [kind |-> "ExitProcess"]
      [] ev.code = "LOAD_DLL_DEBUG_EVENT" ->
            [kind |-> "LoadModule", module_base |-> ev.base]
      [] ev.code = "UNLOAD_DLL_DEBUG_EVENT" -> [kind |-> "Other", msg |-> "UnloadDll"]

\* ---------------------------------------------------------------- main.rs
Init ==
    /\ pc = "wait"
    /\ breakpoints = <<>>
    /\ thread_list = <<>>
    /\ module_list = <<>>
    /\ expect_step_exception = FALSE
    /\ os_event = [code |-> "none"]
    /\ debug_event = [kind |-> "none"]
    /\ ctx = ZeroContext
    /\ continue_status = DBG_CONTINUE
    /\ is_exit = FALSE
    /\ bp_index = NotCalled
    /\ os_threads = {}
    /\ os_ctx = [t \in Tids |-> ZeroContext]
    /\ announced = {}
    /\ written = {}
    /\ last_cmd = NoCmd
    /\ panic_msg = "none"
    /\ nevents = 0
    /\ ncmds = 0
    /\ os_images = {}
    /\ last_continue = NotCalled
    /\ args = NotCalled
    /\ result = NotCalled

\* One iteration of main_debugger_loop from wait_for_next_debug_event to the
\* first prompt of the REPL, for the DEBUG_EVENT ev; octx and threads are
\* the debuggee's contexts and threads at the time of the event.
HandleEvent(ev, octx, threads) ==
    LET de == wait_for_next_debug_event(ev)
        thread_ctx == octx[ev.thread_id]
    IN
    /\ nevents' = nevents + 1
    /\ os_event' = ev
    /\ debug_event' = de
    /\ os_ctx' = octx
    /\ os_threads' = threads
    /\ last_continue' = NotCalled
    /\ UNCHANGED <<breakpoints, written, last_cmd, ncmds, args, result>>
    /\ IF ~ThreadContextOk(threads, ev.thread_id)
       THEN /\ pc' = "panic"
            /\ panic_msg' = "GetThreadContext failed"
            /\ UNCHANGED <<thread_list, module_list, expect_step_exception, ctx,
                           continue_status, is_exit, bp_index>>
       ELSE
       /\ ctx' = thread_ctx
       /\ CASE de.kind = "Exception" ->
               /\ IF expect_step_exception /\ de.exception_code = EXCEPTION_SINGLE_STEP
                  THEN /\ expect_step_exception' = FALSE
                       /\ continue_status' = DBG_CONTINUE
                       /\ bp_index' = NotCalled
                  ELSE LET hit == was_breakpoint_hit(breakpoints, thread_ctx)
                       IN /\ bp_index' = hit
                          /\ continue_status' =
                                IF hit # None THEN DBG_CONTINUE
                                ELSE DBG_EXCEPTION_NOT_HANDLED
                          /\ UNCHANGED expect_step_exception
               /\ pc' = "repl"
               /\ is_exit' = FALSE
               /\ UNCHANGED <<thread_list, module_list, panic_msg>>
            [] de.kind \in {"CreateProcess", "LoadModule"} ->
               LET base == IF de.kind = "CreateProcess" THEN de.exe_base
                           ELSE de.module_base
                   ml == load_module_at_address(module_list, base, ev.image)
               IN IF ml.panicked
                  THEN /\ pc' = "panic"
                       /\ panic_msg' = ml.msg
                       /\ UNCHANGED <<thread_list, module_list, expect_step_exception,
                                      continue_status, is_exit, bp_index>>
                  ELSE /\ module_list' = ml.val
                       /\ thread_list' = IF de.kind = "CreateProcess"
                                         THEN add_thread(thread_list, ev.thread_id)
                                         ELSE thread_list
                       /\ pc' = "repl"
                       /\ continue_status' = DBG_CONTINUE
                       /\ is_exit' = FALSE
                       /\ bp_index' = NotCalled
                       /\ UNCHANGED <<expect_step_exception, panic_msg>>
            [] de.kind = "CreateThread" ->
               /\ thread_list' = add_thread(thread_list, de.thread_id)
               /\ pc' = "repl"
               /\ continue_status' = DBG_CONTINUE
               /\ is_exit' = FALSE
               /\ bp_index' = NotCalled
               /\ UNCHANGED <<module_list, expect_step_exception, panic_msg>>
            [] de.kind = "ExitThread" ->
               /\ thread_list' = remove_thread(thread_list, de.thread_id)
               /\ pc' = "repl"
               /\ continue_status' = DBG_CONTINUE
               /\ is_exit' = FALSE
               /\ bp_index' = NotCalled
               /\ UNCHANGED <<module_list, expect_step_exception, panic_msg>>
            [] de.kind = "Other" ->
               /\ pc' = "repl"
               /\ continue_status' = DBG_CONTINUE
               /\ is_exit' = FALSE
               /\ bp_index' = NotCalled
               /\ UNCHANGED <<thread_list, module_list, expect_step_exception, panic_msg>>
            [] de.kind = "ExitProcess" ->
               /\ pc' = "repl"
               /\ continue_status' = DBG_CONTINUE
               /\ is_exit' = TRUE
               /\ bp_index' = NotCalled
               /\ UNCHANGED <<thread_list, module_list, expect_step_exception, panic_msg>>

\* The hardware and the kernel deliver a debug exception (#DB) or report any
\* other event on a thread: the trap flag of the reported thread is consumed
\* by a #DB, and the resume flag set for the previous resume is gone once
\* the thread has run.
Ran(c) == [c EXCEPT !.EFlags = @ \ {EFLAG_RF}]

\* A resumed thread executes an instruction without raising an event: the
\* processor clears the resume flag.
EvThreadRuns ==
    /\ pc = "wait"
    /\ \E t \in os_threads :
         /\ EFLAG_RF \in os_ctx[t].EFlags
         /\ os_ctx' = [os_ctx EXCEPT ![t] = Ran(@)]
    /\ UNCHANGED <<pc, breakpoints, thread_list, module_list, expect_step_exception,
                   os_event, debug_event, ctx, continue_status, is_exit, bp_index,
                   os_threads, announced, written, last_cmd, panic_msg,
                   nevents, ncmds, os_images, last_continue, args, result>>

\* CREATE_PROCESS_DEBUG_EVENT: always the first event, on the initial thread
EvCreateProcess ==
    /\ pc = "wait" /\ nevents = 0
    /\ \E base \in ExeBases, image \in Images :
         /\ announced' = {MainTid}
         /\ os_images' = {[base |-> base, size |-> image.size, exe |-> TRUE]}
         /\ HandleEvent([code |-> "CREATE_PROCESS_DEBUG_EVENT", thread_id |-> MainTid,
                         base |-> base, image |-> image],
                        os_ctx, {MainTid})

\* CREATE_THREAD_DEBUG_EVENT: reported on the new thread
EvCreateThread ==
    /\ pc = "wait" /\ nevents > 0 /\ nevents < MaxEvents
    /\ \E t \in Tids \ os_threads :
         /\ announced' = announced \cup {t}
         /\ UNCHANGED os_images
         /\ HandleEvent([code |-> "CREATE_THREAD_DEBUG_EVENT", thread_id |-> t],
                        [os_ctx EXCEPT ![t] = ZeroContext], os_threads \cup {t})

\* EXIT_THREAD_DEBUG_EVENT: reported on the exiting thread, which is gone
\* once the event is continued (the exit of the last thread is reported as
\* EXIT_PROCESS_DEBUG_EVENT)
EvExitThread ==
    /\ pc = "wait" /\ nevents > 0 /\ nevents < MaxEvents
    /\ Cardinality(os_threads) > 1
    /\ \E t \in os_threads :
         /\ announced' = announced \ {t}
         /\ UNCHANGED os_images
         /\ HandleEvent([code |-> "EXIT_THREAD_DEBUG_EVENT", thread_id |-> t],
                        [os_ctx EXCEPT ![t] = Ran(@)], os_threads)

\* the address range of a mapped image
Range(base, size) == base..(base + size - 1)

\* LOAD_DLL_DEBUG_EVENT: the loader has mapped an image into a range of the
\* address space that no mapped image occupies
EvLoadDll ==
    /\ pc = "wait" /\ nevents > 0 /\ nevents < MaxEvents
    /\ Len(module_list) < MaxModules + 1
    /\ \E t \in os_threads, base \in ModBases, image \in Images :
         /\ \A m \in os_images :
               Range(m.base, m.size) \cap Range(base, image.size) = {}
         /\ os_images' = os_images \cup
                            {[base |-> base, size |-> image.size, exe |-> FALSE]}
         /\ UNCHANGED announced
         /\ HandleEvent([code |-> "LOAD_DLL_DEBUG_EVENT", thread_id |-> t,
                         base |-> base, image |-> image],
                        [os_ctx EXCEPT ![t] = Ran(@)], os_threads)

\* UNLOAD_DLL_DEBUG_EVENT: the loader has unmapped a DLL
EvUnloadDll ==
    /\ pc = "wait" /\ nevents > 0 /\ nevents < MaxEvents
    /\ \E t \in os_threads, m \in {i \in os_images : ~i.exe} :
         /\ os_images' = os_images \ {m}
         /\ UNCHANGED announced
         /\ HandleEvent([code |-> "UNLOAD_DLL_DEBUG_EVENT", thread_id |-> t,
                         base |-> m.base],
                        [os_ctx EXCEPT ![t] = Ran(@)], os_threads)

\* EXIT_PROCESS_DEBUG_EVENT
EvExitProcess ==
    /\ pc = "wait" /\ nevents > 0 /\ nevents < MaxEvents
    /\ \E t \in os_threads :
         /\ UNCHANGED <<announced, os_images>>
         /\ HandleEvent([code |-> "EXIT_PROCESS_DEBUG_EVENT", thread_id |-> t],
                        [os_ctx EXCEPT ![t] = Ran(@)], os_threads)

DrOf(c, i) == CASE i = 0 -> c.Dr0 [] i = 1 -> c.Dr1 [] i = 2 -> c.Dr2 [] i = 3 -> c.Dr3

\* slot i of a CONTEXT is armed as an execute breakpoint
Armed(c, i) ==
    /\ DR7_LE_BIT[i + 1] \in c.Dr7
    /\ DR7_RW_BIT[i + 1] \notin c.Dr7 /\ (DR7_RW_BIT[i + 1] - 1) \notin c.Dr7

\* EXCEPTION_DEBUG_EVENT, single-step trap: the thread has the trap flag set
\* (only the `t` command sets it) and has executed one instruction.
EvStepException ==
    /\ pc = "wait" /\ nevents > 0 /\ nevents < MaxEvents
    /\ \E t \in os_threads :
         /\ TRAP_FLAG_BIT \in os_ctx[t].EFlags
         /\ UNCHANGED <<announced, os_images>>
         /\ HandleEvent([code |-> "EXCEPTION_DEBUG_EVENT", thread_id |-> t,
                         exception_code |-> EXCEPTION_SINGLE_STEP, cause |-> "step"],
                        [os_ctx EXCEPT ![t] =
                            [Ran(@) EXCEPT !.EFlags = @ \ {TRAP_FLAG_BIT}]],
                        os_threads)

\* EXCEPTION_DEBUG_EVENT, hardware breakpoint: the thread is about to execute
\* the address in an armed slot i; the CPU sets Dr6.B_j for the armed slots
\* holding that address and leaves the other bits of Dr6 as they are.
EvBreakpointException ==
    /\ pc = "wait" /\ nevents > 0 /\ nevents < MaxEvents
    /\ \E t \in os_threads, i \in 0..3 :
         /\ Armed(os_ctx[t], i)
         /\ UNCHANGED <<announced, os_images>>
         /\ LET c == os_ctx[t]
                hit == {j \in 0..3 : Armed(c, j) /\ DrOf(c, j) = DrOf(c, i)}
            IN HandleEvent([code |-> "EXCEPTION_DEBUG_EVENT", thread_id |-> t,
                            exception_code |-> EXCEPTION_SINGLE_STEP,
                            cause |-> "breakpoint", slot |-> i],
                           [os_ctx EXCEPT ![t] =
                               [Ran(c) EXCEPT !.Dr6 = @ \cup {DR6_B_BIT[j + 1] : j \in hit},
                                              !.EFlags = @ \ {TRAP_FLAG_BIT}]],
                           os_threads)

\* EXCEPTION_DEBUG_EVENT raised by the debuggee's own code (here an access
\* violation); Dr6 keeps what earlier debug exceptions left in it.
EvDebuggeeException ==
    /\ pc = "wait" /\ nevents > 0 /\ nevents < MaxEvents
    /\ \E t \in os_threads :
         /\ UNCHANGED <<announced, os_images>>
         /\ HandleEvent([code |-> "EXCEPTION_DEBUG_EVENT", thread_id |-> t,
                         exception_code |-> EXCEPTION_ACCESS_VIOLATION,
                         cause |-> "debuggee"],
                        [os_ctx EXCEPT ![t] = Ran(@)], os_threads)

\* eval_expr returns None when evaluate_expression fails ("Could not evaluate
\* expression"); the commands below draw its result from a small set of values.

\* a variant of LoopTail that programs the threads and continues the event
\* before it looks at is_exit
LoopTail_resume_before_exit(octx) ==
    LET r == apply_breakpoints(breakpoints, thread_list, os_event.thread_id,
                               os_threads, os_threads, octx, {})
    IN /\ os_ctx' = r.ctx
       /\ written' = r.written
       /\ last_continue' = [called |-> TRUE, status |-> continue_status]
       /\ IF is_exit
          THEN /\ pc' = "done"
               /\ UNCHANGED <<os_threads, os_event, debug_event, continue_status,
                              is_exit, bp_index>>
          ELSE /\ pc' = "wait"
               /\ os_threads' = IF os_event.code = "EXIT_THREAD_DEBUG_EVENT"
                                THEN os_threads \ {os_event.thread_id}
                                ELSE os_threads
               /\ os_event' = [code |-> "none"]
               /\ debug_event' = [kind |-> "none"]
               /\ continue_status' = DBG_CONTINUE
               /\ is_exit' = FALSE
               /\ bp_index' = NotCalled

\* The tail of the loop body once the REPL is left: `if is_exit { break }`,
\* apply_breakpoints, ContinueDebugEvent, and the end of the iteration, where
\* the locals of the loop body (the event, ctx, continue_status, is_exit) go
\* out of scope. octx holds the contexts after the command that left the REPL.
LoopTail(octx) ==
    IF is_exit
    THEN /\ pc' = "done"
         /\ os_ctx' = octx
         /\ UNCHANGED <<written, os_threads, os_event, debug_event,
                        continue_status, is_exit, bp_index, last_continue>>
    ELSE LET r == apply_breakpoints(breakpoints, thread_list, os_event.thread_id,
                                    os_threads, os_threads, octx, {})
         IN /\ os_ctx' = r.ctx
            /\ written' = r.written
            /\ last_continue' = [called |-> TRUE, status |-> continue_status]
            /\ pc' = "wait"
            /\ os_threads' = IF os_event.code = "EXIT_THREAD_DEBUG_EVENT"
                             THEN os_threads \ {os_event.thread_id}
                             ELSE os_threads
            /\ os_event' = [code |-> "none"]
            /\ debug_event' = [kind |-> "none"]
            /\ continue_status' = DBG_CONTINUE
            /\ is_exit' = FALSE
            /\ bp_index' = NotCalled

\* CommandExpr::StepInto
CmdStepInto ==
    /\ pc = "repl"
    /\ LET c == [ctx EXCEPT !.EFlags = @ \cup {TRAP_FLAG_BIT}]
       IN IF ~ThreadContextOk(os_threads, os_event.thread_id)
          THEN /\ pc' = "panic"
               /\ panic_msg' = "SetThreadContext failed"
               /\ ctx' = c
               /\ last_cmd' = Cmd("t", TRUE)
               /\ UNCHANGED <<expect_step_exception, os_ctx, written, os_threads,
                              os_event, debug_event, continue_status, is_exit,
                              bp_index, last_continue>>
          ELSE /\ expect_step_exception' = TRUE
               /\ LoopTail([os_ctx EXCEPT ![os_event.thread_id] = c])
               /\ ctx' = IF is_exit THEN c ELSE ZeroContext
               /\ last_cmd' = IF is_exit THEN Cmd("t", TRUE) ELSE NoCmd
               /\ UNCHANGED panic_msg
    /\ UNCHANGED <<breakpoints, thread_list, module_list, announced, nevents, ncmds,
                   os_images, args, result>>

\* CommandExpr::Go
CmdGo ==
    /\ pc = "repl"
    /\ LoopTail(os_ctx)
    /\ ctx' = IF is_exit THEN ctx ELSE ZeroContext
    /\ last_cmd' = IF is_exit THEN Cmd("g", TRUE) ELSE NoCmd
    /\ UNCHANGED <<breakpoints, thread_list, module_list, expect_step_exception,
                   announced, panic_msg, nevents, ncmds, os_images, args, result>>

\* CommandExpr::SetBreakpoint
CmdSetBreakpoint(limit) ==
    /\ pc = "repl" /\ ncmds < limit
    /\ ncmds' = ncmds + 1
    /\ \E addr \in {None} \cup {Some(a) : a \in Addrs} :
         /\ last_cmd' = Cmd("bp", addr.some)
         /\ IF ~addr.some
            THEN UNCHANGED <<pc, breakpoints, panic_msg>>
            ELSE LET bps == add_breakpoint(breakpoints, addr.val)
                 IN IF bps.panicked
                    THEN /\ pc' = "panic"
                         /\ panic_msg' = bps.msg
                         /\ UNCHANGED breakpoints
                    ELSE /\ breakpoints' = bps.val
                         /\ UNCHANGED <<pc, panic_msg>>
    /\ UNCHANGED <<thread_list, module_list, expect_step_exception, os_event,
                   debug_event, ctx, continue_status, is_exit, bp_index,
                   os_threads, os_ctx, announced, written, nevents,
                   os_images, last_continue, args, result>>

\* CommandExpr::ClearBreakpoint
CmdClearBreakpoint(limit) ==
    /\ pc = "repl" /\ ncmds < limit
    /\ ncmds' = ncmds + 1
    /\ \E id \in {None} \cup {Some(v) : v \in 0..MaxBreakpoints} :
         /\ last_cmd' = Cmd("bc", id.some)
         /\ IF ~id.some
            THEN UNCHANGED breakpoints
            ELSE breakpoints' = clear_breakpoint(breakpoints, id.val)
    /\ UNCHANGED <<pc, thread_list, module_list, expect_step_exception, os_event,
                   debug_event, ctx, continue_status, is_exit, bp_index,
                   os_threads, os_ctx, announced, written, panic_msg, nevents,
                   os_images, last_continue, args, result>>

\* a variant of Quit that continues the event before it returns
CmdQuit_continues_event ==
    /\ pc = "repl"
    /\ last_cmd' = Cmd("q", TRUE)
    /\ pc' = "quit"
    /\ last_continue' = [called |-> TRUE, status |-> continue_status]
    /\ UNCHANGED <<breakpoints, thread_list, module_list, expect_step_exception,
                   os_event, debug_event, ctx, continue_status, is_exit, bp_index,
                   os_threads, os_ctx, announced, written, panic_msg, nevents, ncmds,
                   os_images, args, result>>

\* CommandExpr::Quit
CmdQuit ==
    /\ pc = "repl"
    /\ last_cmd' = Cmd("q", TRUE)
    /\ pc' = "quit"
    /\ UNCHANGED <<breakpoints, thread_list, module_list, expect_step_exception,
                   os_event, debug_event, ctx, continue_status, is_exit, bp_index,
                   os_threads, os_ctx, announced, written, panic_msg, nevents, ncmds,
                   os_images, last_continue, args, result>>

Next ==
    \/ EvCreateProcess
    \/ EvCreateThread
    \/ EvExitThread
    \/ EvLoadDll
    \/ EvUnloadDll
    \/ EvExitProcess
    \/ EvStepException
    \/ EvBreakpointException
    \/ EvDebuggeeException
    \/ EvThreadRuns
    \/ CmdStepInto
    \/ CmdGo
    \/ CmdSetBreakpoint(MaxCmds)
    \/ CmdClearBreakpoint(MaxCmds)
    \/ CmdQuit

Spec == Init /\ [][Next]_vars

TypeOK ==
    /\ pc \in {"wait", "repl", "done", "quit", "panic", "call", "called"}
    /\ Len(breakpoints) <= MaxBreakpoints
    /\ nevents \in 0..MaxEvents

\* The REPL of the first stop alone: any sequence of bp and bc commands
\* issued at the CreateProcess event.
NextBreakpoints ==
    \/ EvCreateProcess
    \/ CmdSetBreakpoint(MaxBpCmds)
    \/ CmdClearBreakpoint(MaxBpCmds)

SpecBreakpoints == Init /\ [][NextBreakpoints]_vars

\* The events of threads and of the process alone, without breakpoints:
\* threads are created, run, step, fault and exit, the process exits, and
\* every stop is left with g or t.
NextThreads ==
    \/ EvCreateProcess
    \/ EvCreateThread
    \/ EvExitThread
    \/ EvExitProcess
    \/ EvStepException
    \/ EvDebuggeeException
    \/ EvThreadRuns
    \/ CmdGo
    \/ CmdStepInto

SpecThreads == Init /\ [][NextThreads]_vars

\* was_breakpoint_hit alone, called on any breakpoint list add_breakpoint and
\* clear_breakpoint can leave (sorted by id, ids distinct and below 4) and on
\* any Dr6 made of the bits B0..B3 and BS.
BreakpointLists ==
    {s \in UNION {[1..n -> [addr : Addrs, id : 0..(MaxBreakpoints - 1)]] :
                    n \in 0..MaxBreakpoints} :
        \A i, j \in 1..Len(s) : i < j => s[i].id < s[j].id}

InitHit ==
    /\ pc = "call"
    /\ breakpoints \in BreakpointLists
    /\ ctx \in {[ZeroContext EXCEPT !.Dr6 = d] : d \in SUBSET {0, 1, 2, 3, 14}}
    /\ bp_index = NotCalled
    /\ thread_list = <<>>
    /\ module_list = <<>>
    /\ expect_step_exception = FALSE
    /\ os_event = [code |-> "none"]
    /\ debug_event = [kind |-> "none"]
    /\ continue_status = DBG_CONTINUE
    /\ is_exit = FALSE
    /\ os_threads = {}
    /\ os_ctx = [t \in Tids |-> ZeroContext]
    /\ announced = {}
    /\ written = {}
    /\ last_cmd = NoCmd
    /\ panic_msg = "none"
    /\ nevents = 0
    /\ ncmds = 0
    /\ os_images = {}
    /\ last_continue = NotCalled
    /\ args = NotCalled
    /\ result = NotCalled

CallWasBreakpointHit ==
    /\ pc = "call"
    /\ bp_index' = was_breakpoint_hit(breakpoints, ctx)
    /\ pc' = "called"
    /\ UNCHANGED <<breakpoints, thread_list, module_list, expect_step_exception,
                   os_event, debug_event, ctx, continue_status, is_exit,
                   os_threads, os_ctx, announced, written, last_cmd, panic_msg,
                   nevents, ncmds, os_images, last_continue, args, result>>

NextHit == CallWasBreakpointHit

SpecHit == InitHit /\ [][NextHit]_vars

\* ---- stack.rs: the unwinder ----
UWOP_PUSH_NONVOL == 0
UWOP_ALLOC_LARGE == 1
UWOP_ALLOC_SMALL == 2
UWOP_SET_FPREG == 3
UWOP_SAVE_NONVOL == 4
UWOP_SAVE_NONVOL_FAR == 5
UWOP_SAVE_XMM128 == 8
UWOP_SAVE_XMM128_FAR == 9
UWOP_PUSH_MACHFRAME == 10
UNW_FLAG_CHAININFO == 4

\* enum UnwindOp
PushNonVolatile(reg) == [op |-> "PushNonVolatile", reg |-> reg]
Alloc(size) == [op |-> "Alloc", size |-> size]
SetFpreg == [op |-> "SetFpreg"]
SaveNonVolatile(reg, offset) == [op |-> "SaveNonVolatile", reg |-> reg, offset |-> offset]
SaveXmm128(reg, offset) == [op |-> "SaveXmm128", reg |-> reg, offset |-> offset]
PushMachFrame(error_code) == [op |-> "PushMachFrame", error_code |-> error_code]

\* struct UnwindCode
UnwindCode(code_offset, op) == [code_offset |-> code_offset, op |-> op]

\* split_up!(code_slots[i] => 8, 4, 4)
split_up_8_4_4(value) ==
    [code_offset |-> value % 256,
     unwind_op |-> (value \div 256) % 16,
     op_info |-> (value \div 4096) % 16]

\* one turn of the while loop of get_unwind_ops at slot i (0-based): the
\* UnwindCode pushed and the index of its last slot, or the error returned
DecodeUnwindCode(code_slots, i) ==
    LET f == split_up_8_4_4(code_slots[i + 1])
        code_offset == f.code_offset
        unwind_op == f.unwind_op
        op_info == f.op_info
        pushed(op, last) == Ok([code |-> UnwindCode(code_offset, op), i |-> last])
    IN IF unwind_op = UWOP_PUSH_NONVOL
       THEN pushed(PushNonVolatile(op_info), i)
       ELSE IF unwind_op = UWOP_ALLOC_LARGE /\ op_info = 0
       THEN IF i + 1 >= Len(code_slots)
            THEN Err("UWOP_ALLOC_LARGE was incomplete")
            ELSE pushed(Alloc(code_slots[i + 2] * 8), i + 1)
       ELSE IF unwind_op = UWOP_ALLOC_LARGE /\ op_info = 1
       THEN IF i + 2 >= Len(code_slots)
            THEN Err("UWOP_ALLOC_LARGE was incomplete")
            ELSE pushed(Alloc(code_slots[i + 2] + code_slots[i + 3] * 65536), i + 2)
       ELSE IF unwind_op = UWOP_ALLOC_SMALL
       THEN pushed(Alloc(op_info * 8 + 8), i)
       ELSE IF unwind_op = UWOP_SET_FPREG
       THEN pushed(SetFpreg, i)
       ELSE IF unwind_op = UWOP_SAVE_NONVOL
       THEN IF i + 1 >= Len(code_slots)
            THEN Err("UWOP_SAVE_NONVOL was incomplete")
            ELSE pushed(SaveNonVolatile(op_info, code_slots[i + 2]), i + 1)
       ELSE IF unwind_op = UWOP_SAVE_NONVOL_FAR
       THEN IF i + 2 >= Len(code_slots)
            THEN Err("UWOP_SAVE_NONVOL_FAR was incomplete")
            ELSE pushed(SaveNonVolatile(op_info,
                            code_slots[i + 2] + code_slots[i + 3] * 65536), i + 2)
       ELSE IF unwind_op = UWOP_SAVE_XMM128
       THEN IF i + 1 >= Len(code_slots)
            THEN Err("UWOP_SAVE_XMM128 was incomplete")
            ELSE pushed(SaveXmm128(op_info, code_slots[i + 2]), i + 1)
       ELSE IF unwind_op = UWOP_SAVE_XMM128_FAR
       THEN IF i + 2 >= Len(code_slots)
            THEN Err("UWOP_SAVE_XMM128_FAR was incomplete")
            ELSE pushed(SaveXmm128(op_info,
                            code_slots[i + 2] + code_slots[i + 3] * 65536), i + 2)
       ELSE Err("Unrecognized unwind op")

\* a variant of GetUnwindOpsLoop that puts each op in front of the ops
\* decoded before it
RECURSIVE GetUnwindOpsLoop_newest_first(_, _, _)
GetUnwindOpsLoop_newest_first(code_slots, i, ops) ==
    IF ~(i < Len(code_slots)) THEN Ok(ops)
    ELSE LET turn == DecodeUnwindCode(code_slots, i)
         IN IF ~turn.ok THEN turn
            ELSE GetUnwindOpsLoop_newest_first(code_slots, turn.val.i + 1,
                                               <<turn.val.code>> \o ops)

\* the while loop of get_unwind_ops from slot i (0-based) on
RECURSIVE GetUnwindOpsLoop(_, _, _)
GetUnwindOpsLoop(code_slots, i, ops) ==
    IF ~(i < Len(code_slots)) THEN Ok(ops)
    ELSE LET turn == DecodeUnwindCode(code_slots, i)
         IN IF ~turn.ok THEN turn
            ELSE GetUnwindOpsLoop(code_slots, turn.val.i + 1, Append(ops, turn.val.code))

\* fn get_unwind_ops(code_slots: &[u16]) -> Result<Vec<UnwindCode>, &'static str>
get_unwind_ops(code_slots) == GetUnwindOpsLoop(code_slots, 0, <<>>)

\* The CONTEXT as the unwinder uses it: Rip and the sixteen general-purpose
\* registers in the numbering of get_op_register, where register 4 is Rsp.
REG_RSP == 4

Rsp(context) == context.gpr[REG_RSP]

\* *get_op_register(&mut context, reg) = val
set_op_register(context, reg, val) ==
    IF reg \in 0..15 THEN Returned([context EXCEPT !.gpr[reg] = val])
    ELSE Panicked("Bad register given to get_op_register()")

\* `let val = read_memory_data::<u64>(memory_source, addr)?` and then
\* *get_op_register(&mut unwound_context, reg) = val
OkUnlessPanicked(r) == IF r.panicked THEN r ELSE Returned(Ok(r.val))

LoadRegister(unwound_context, reg, val) ==
    IF val.panicked THEN val
    ELSE IF ~val.val.ok THEN val
    ELSE OkUnlessPanicked(set_op_register(unwound_context, reg, val.val.val))

\* the match of apply_unwind_ops on one op whose code_offset <= func_offset
ApplyUnwindOp(unwound_context, op, memory_source) ==
    IF op.op = "Alloc"
    THEN Returned(Ok([unwound_context EXCEPT !.gpr[REG_RSP] = @ + op.size]))
    ELSE IF op.op = "PushNonVolatile"
    THEN LoadRegister([unwound_context EXCEPT !.gpr[REG_RSP] = @ + 8], op.reg,
             read_memory_data_sized(memory_source, Rsp(unwound_context), 8))
    ELSE IF op.op = "SaveNonVolatile"
    THEN LoadRegister(unwound_context, op.reg,
             read_memory_data_sized(memory_source, Rsp(unwound_context) + op.offset, 8))
    ELSE Panicked("NYI unwind op")

\* a variant of apply_unwind_ops that applies the ops whose code offset is
\* strictly below the function offset
RECURSIVE apply_unwind_ops_strictly_before(_, _, _, _)
apply_unwind_ops_strictly_before(context, unwind_ops, func_address, memory_source) ==
    IF unwind_ops = <<>> THEN Returned(Ok(Some(context)))
    ELSE LET unwind == Head(unwind_ops)
             func_offset == context.Rip - func_address
         IN IF unwind.code_offset < func_offset
            THEN CHOOSE out \in
                     {IF r.panicked THEN r
                      ELSE IF ~r.val.ok THEN r
                      ELSE apply_unwind_ops_strictly_before(r.val.val, Tail(unwind_ops),
                           func_address, memory_source) :
                         r \in {ApplyUnwindOp(context, unwind.op, memory_source)}} :
                     TRUE
            ELSE apply_unwind_ops_strictly_before(context, Tail(unwind_ops),
                                                  func_address, memory_source)

\* fn apply_unwind_ops(context, unwind_ops, func_address, memory_source)
\*   -> Result<Option<CONTEXT>, &'static str>; `context` is unwound_context
\* from the first op on
RECURSIVE apply_unwind_ops(_, _, _, _)
apply_unwind_ops(context, unwind_ops, func_address, memory_source) ==
    IF unwind_ops = <<>> THEN Returned(Ok(Some(context)))
    ELSE LET unwind == Head(unwind_ops)
             func_offset == context.Rip - func_address
         IN IF unwind.code_offset <= func_offset
            THEN CHOOSE out \in
                     {IF r.panicked THEN r
                      ELSE IF ~r.val.ok THEN r
                      ELSE apply_unwind_ops(r.val.val, Tail(unwind_ops),
                           func_address, memory_source) :
                         r \in {ApplyUnwindOp(context, unwind.op, memory_source)}} :
                     TRUE
            ELSE apply_unwind_ops(context, Tail(unwind_ops), func_address, memory_source)

\* function_list.binary_search_by(|func| func.BeginAddress.cmp(&addr)) on the
\* positions left..right-1 (counted from 0): Ok(position) of an entry that
\* compares Equal, or Err(position) where the halving ends
RECURSIVE binary_search_by(_, _, _, _)
binary_search_by(function_list, addr, left, right) ==
    IF left >= right THEN Err(left)
    ELSE LET mid == left + ((right - left) \div 2)
             begin == function_list[mid + 1].BeginAddress
         IN IF begin = addr THEN Ok(mid)
            ELSE IF begin < addr
            THEN binary_search_by(function_list, addr, mid + 1, right)
            ELSE binary_search_by(function_list, addr, left, mid)

\* function_list.get(pos).map_or(false, |func| func.BeginAddress <= addr &&
\* addr < func.EndAddress)
Covers(function_list, pos, addr) ==
    /\ pos \in 0..(Len(function_list) - 1)
    /\ function_list[pos + 1].BeginAddress <= addr
    /\ addr < function_list[pos + 1].EndAddress

\* a variant of find_runtime_function that takes the entry below the
\* insertion point whatever its EndAddress
find_runtime_function_entry_below(addr, function_list) ==
    LET index == binary_search_by(function_list, addr, 0, Len(function_list))
    IN IF index.ok THEN Some(function_list[index.val + 1])
       ELSE LET pos == index.err
            IN IF pos > 0 THEN Some(function_list[pos])
               ELSE IF pos < Len(function_list) /\ Covers(function_list, pos, addr)
               THEN Some(function_list[pos + 1])
               ELSE None

\* fn find_runtime_function(addr, function_list): binary search by
\* BeginAddress in the table, then the neighbours of the insertion point
find_runtime_function(addr, function_list) ==
    LET index == binary_search_by(function_list, addr, 0, Len(function_list))
    IN IF index.ok THEN Some(function_list[index.val + 1])
       ELSE LET pos == index.err
            IN IF pos > 0 /\ Covers(function_list, pos - 1, addr)
               THEN Some(function_list[pos])
               ELSE IF pos < Len(function_list) /\ Covers(function_list, pos, addr)
               THEN Some(function_list[pos + 1])
               ELSE None

\* module.get_data_directory(IMAGE_DIRECTORY_ENTRY_EXCEPTION)
get_data_directory(module) == module.exception

\* ctx.Rip = read_memory_data::<u64>(memory_source, ctx.Rsp)?; ctx.Rsp += 8,
\* given what the read returned
SetReturnAddress(context, rip) ==
    IF rip.panicked THEN rip
    ELSE IF ~rip.val.ok THEN rip
    ELSE Returned(Ok([context EXCEPT !.Rip = rip.val.val, !.gpr[REG_RSP] = @ + 8]))

\* the return address popped into a context: Rip = [Rsp], Rsp += 8
PopReturnAddress(context, memory_source) ==
    SetReturnAddress(context, read_memory_data_sized(memory_source, Rsp(context), 8))

\* pub fn unwind_context(process, context, memory_source)
\*   -> Result<Option<CONTEXT>, &'static str>, written as its successive
\* stages, each entered when the one before has its value. The tables of a
\* module (its RUNTIME_FUNCTIONs, each with the UNWIND_INFO and codes its
\* UnwindInfo points at) are read through module.readable; the stack through
\* memory_source.

\* after the return address is popped: no further frame when Rip is 0
ReturnedFrame(ctx1) ==
    IF ctx1.panicked THEN ctx1
    ELSE IF ~ctx1.val.ok THEN ctx1
    ELSE IF ctx1.val.val.Rip = 0 THEN Returned(Ok(None))
    ELSE Returned(Ok(Some(ctx1.val.val)))

\* the arms of `match apply_unwind_ops(..)?`: Some(ctx) pops the return
\* address, None ends the stack
UnwoundFrame(applied, memory_source) ==
    IF applied.panicked THEN applied
    ELSE IF ~applied.val.ok THEN applied
    ELSE IF ~applied.val.val.some THEN Returned(Ok(None))
    ELSE ReturnedFrame(PopReturnAddress(applied.val.val.val, memory_source))

\* match apply_unwind_ops(&context, &unwind_ops, module.address + func.BeginAddress, ..)?
UnwindWithOps(func_address, unwind_ops, context, memory_source) ==
    UnwoundFrame(apply_unwind_ops(context, unwind_ops, func_address, memory_source),
                 memory_source)

\* let unwind_ops = get_unwind_ops(&codes)?
UnwindWithCodes(module, func, codes, context, memory_source) ==
    LET unwind_ops == get_unwind_ops(codes)
    IN IF ~unwind_ops.ok THEN Returned(unwind_ops)
       ELSE UnwindWithOps(module.address + func.BeginAddress, unwind_ops.val,
                          context, memory_source)

\* the checks of the UNWIND_INFO and the read of its codes
UnwindWithInfo(module, func, info, context, memory_source) ==
    IF ((info.version_flags \div 8) \div UNW_FLAG_CHAININFO) % 2 = 1
    THEN Returned(Err("NYI: Chained info"))
    ELSE IF info.frame_register_offset # 0
    THEN Returned(Err("NYI frame_register_offset"))
    ELSE LET codes == read_memory_full_array(module.readable.codes, info.codes)
         IN IF ~codes.ok THEN Returned(codes)
            ELSE UnwindWithCodes(module, func, codes.val, context, memory_source)

\* We have unwind data: read the UNWIND_INFO of the function
UnwindFunction(module, func, context, memory_source) ==
    LET info == read_memory_data(module.readable.info, func.UnwindInfo)
    IN IF info.panicked THEN info
       ELSE UnwindWithInfo(module, func, info.val.val, context, memory_source)

\* Leaf function: the return address is simply at [RSP]
LeafFrame(leaf) ==
    IF leaf.panicked THEN leaf
    ELSE IF ~leaf.val.ok THEN leaf
    ELSE Returned(Ok(Some(leaf.val.val)))

UnwindLeaf(context, memory_source) ==
    LeafFrame(PopReturnAddress(context, memory_source))

\* the module that holds Rip: its exception directory and function table
UnwindInModule(module, context, memory_source) ==
    LET data_directory == get_data_directory(module)
    IN IF ~(data_directory.VirtualAddress # 0 /\ data_directory.Size # 0)
       THEN Returned(Ok(None))
       ELSE LET functions == read_memory_full_array(module.readable.functions,
                                                    module.functions)
            IN IF ~functions.ok THEN Returned(functions)
               ELSE LET func == find_runtime_function(context.Rip - module.address,
                                                      functions.val)
                    IN IF ~func.some THEN UnwindLeaf(context, memory_source)
                       ELSE UnwindFunction(module, func.val, context, memory_source)

unwind_context(ml, context, memory_source) ==
    LET found == get_containing_module_mut(ml, context.Rip)
    IN IF ~found.some THEN Returned(Ok(None))
       ELSE UnwindInModule(ml[found.val], context, memory_source)

\* The memory functions alone, called on a memory of MaxMem bytes of which any
\* subset is readable.
MemAddrs == 0..(MaxMem - 1)

MemBytes == [a \in MemAddrs |-> 17 + 16 * a]

MemArgs ==
    {[fn |-> "read_memory", source |-> [readable |-> rd, bytes |-> MemBytes],
      address |-> a, len |-> n] :
        rd \in SUBSET MemAddrs, a \in MemAddrs, n \in 0..MaxLen}
    \cup
    {[fn |-> "read_memory_data", source |-> [readable |-> rd, bytes |-> MemBytes],
      address |-> a, len |-> n] :
        rd \in SUBSET MemAddrs, a \in MemAddrs, n \in 1..MaxLen}

InitMemory ==
    /\ pc = "call"
    /\ args \in MemArgs
    /\ result = NotCalled
    /\ breakpoints = <<>>
    /\ thread_list = <<>>
    /\ os_ctx = [t \in Tids |-> ZeroContext]
    /\ written = {}
    /\ ctx = ZeroContext
    /\ bp_index = NotCalled
    /\ module_list = <<>>
    /\ expect_step_exception = FALSE
    /\ os_event = [code |-> "none"]
    /\ debug_event = [kind |-> "none"]
    /\ continue_status = DBG_CONTINUE
    /\ is_exit = FALSE
    /\ os_threads = {}
    /\ announced = {}
    /\ last_cmd = NoCmd
    /\ panic_msg = "none"
    /\ nevents = 0
    /\ ncmds = 0
    /\ os_images = {}
    /\ last_continue = NotCalled

CallReadMemory ==
    /\ pc = "call"
    /\ args.fn = "read_memory"
    /\ result' = Returned(read_memory(args.source, args.address, args.len))
    /\ pc' = "called"
    /\ UNCHANGED <<breakpoints, thread_list, module_list, expect_step_exception,
                   os_event, debug_event, ctx, continue_status, is_exit, bp_index,
                   os_threads, os_ctx, announced, written, last_cmd, panic_msg,
                   nevents, ncmds, os_images, last_continue, args>>

\* read_memory_data::<T> with size_of::<T>() = args.len
CallReadMemoryData ==
    /\ pc = "call"
    /\ args.fn = "read_memory_data"
    /\ result' = read_memory_data_sized(args.source, args.address, args.len)
    /\ panic_msg' = IF result'.panicked THEN result'.msg ELSE panic_msg
    /\ pc' = "called"
    /\ UNCHANGED <<breakpoints, thread_list, module_list, expect_step_exception,
                   os_event, debug_event, ctx, continue_status, is_exit, bp_index,
                   os_threads, os_ctx, announced, written, last_cmd,
                   nevents, ncmds, os_images, last_continue, args>>

NextMemory == CallReadMemory \/ CallReadMemoryData

SpecMemory == InitMemory /\ [][NextMemory]_vars

\* The unwinder alone. A prolog is a sequence of steps of two code bytes each:
\* push of a nonvolatile register, stack allocation, or save of a nonvolatile
\* register with a MOV at [Rsp + n]; step i ends at code offset 2 * i.
NonVolatile == {3, 5}

Steps ==
    {[kind |-> "push", reg |-> r, n |-> 8] : r \in NonVolatile}
    \cup {[kind |-> "alloc", reg |-> REG_RSP, n |-> n] : n \in {8, 16}}
    \cup {[kind |-> "save", reg |-> r, n |-> n] : r \in NonVolatile, n \in {0, 8}}

\* the stack: the function is entered with Rsp = StackTop, where the return
\* address lies; every byte below and the return address are readable
StackTop == 16 * MaxSteps

StackAddrs == 0..(StackTop + 7)

RECURSIVE ToLeBytes(_, _)
ToLeBytes(value, len) ==
    IF len = 0 THEN <<>> ELSE <<value % 256>> \o ToLeBytes(value \div 256, len - 1)

WriteWord(bytes, addr, value) ==
    [a \in DOMAIN bytes |->
        IF a \in addr..(addr + 7) THEN ToLeBytes(value, 8)[a - addr + 1] ELSE bytes[a]]

EntryBytes ==
    WriteWord([a \in StackAddrs |-> IF a % 8 = 0 THEN 204 ELSE 0], StackTop, 150)

\* the registers at function entry, every register with a value of its own
EntryGpr == [r \in 0..15 |-> IF r = REG_RSP THEN StackTop ELSE 16 + r]

\* the reference interpreter: one prolog step executed forwards. `used` are
\* the stack words written so far and `saved` the registers stored; `ok`
\* tells that no register was stored twice and no save hit a word in use or
\* a word not allocated by the function.
ExecStep(st, step) ==
    IF step.kind = "push"
    THEN [st EXCEPT !.gpr[REG_RSP] = @ - 8,
                    !.bytes = WriteWord(@, st.gpr[REG_RSP] - 8, st.gpr[step.reg]),
                    !.used = @ \cup {st.gpr[REG_RSP] - 8},
                    !.saved = @ \cup {step.reg},
                    !.ok = @ /\ step.reg \notin st.saved]
    ELSE IF step.kind = "alloc"
    THEN [st EXCEPT !.gpr[REG_RSP] = @ - step.n]
    ELSE [st EXCEPT !.bytes = IF st.gpr[REG_RSP] + step.n < StackTop
                              THEN WriteWord(@, st.gpr[REG_RSP] + step.n, st.gpr[step.reg])
                              ELSE @,
                    !.used = @ \cup {st.gpr[REG_RSP] + step.n},
                    !.saved = @ \cup {step.reg},
                    !.ok = /\ @
                           /\ step.reg \notin st.saved
                           /\ st.gpr[REG_RSP] + step.n \notin st.used
                           /\ st.gpr[REG_RSP] + step.n < StackTop]

RECURSIVE RunProlog(_, _)
RunProlog(prolog, k) ==
    IF k = 0
    THEN [gpr |-> EntryGpr, bytes |-> EntryBytes, used |-> {}, saved |-> {}, ok |-> TRUE]
    ELSE CHOOSE next \in {ExecStep(st, prolog[k]) : st \in {RunProlog(prolog, k - 1)}} : TRUE

Prologs ==
    {p \in UNION {[1..n -> Steps] : n \in 0..MaxSteps} : RunProlog(p, Len(p)).ok}

\* the unwind ops of a prolog, the last step first
OpOfStep(step) ==
    IF step.kind = "push" THEN PushNonVolatile(step.reg)
    ELSE IF step.kind = "alloc" THEN Alloc(step.n)
    ELSE SaveNonVolatile(step.reg, step.n)

OpsOfProlog(prolog) ==
    [i \in 1..Len(prolog) |->
        UnwindCode(2 * (Len(prolog) + 1 - i), OpOfStep(prolog[Len(prolog) + 1 - i]))]

\* the arguments of apply_unwind_ops for a thread stopped at code offset
\* `offset` of a function with the given prolog; in the function body the
\* saved registers hold other values when `clobbered`
Executed(prolog, offset) ==
    IF offset \div 2 < Len(prolog) THEN offset \div 2 ELSE Len(prolog)

ApplyUnwindArgs ==
    UNION {
        {[fn |-> "apply_unwind_ops",
          context |-> [Rip |-> 102 + offset,
                       gpr |-> [r \in 0..15 |->
                                   IF clobbered /\ offset > 2 * Len(p) /\ r \in st.saved
                                   THEN 170 ELSE st.gpr[r]]],
          unwind_ops |-> OpsOfProlog(p),
          func_address |-> 102,
          source |-> [readable |-> StackAddrs, bytes |-> st.bytes],
          prolog |-> p,
          offset |-> offset,
          executed |-> Executed(p, offset)] :
            st \in {RunProlog(p, Executed(p, offset))}} :
        p \in Prologs, offset \in 0..(2 * MaxSteps + 1), clobbered \in BOOLEAN}

\* a UNWIND_CODE slot
Slot(code_offset, unwind_op, op_info) == code_offset + 256 * unwind_op + 4096 * op_info

CodeSlotLists ==
    {<<>>,
     <<Slot(2, UWOP_ALLOC_SMALL, 0)>>,
     <<Slot(4, UWOP_ALLOC_SMALL, 1), Slot(2, UWOP_PUSH_NONVOL, 3)>>,
     <<Slot(4, UWOP_SAVE_NONVOL, 5), 0, Slot(2, UWOP_ALLOC_LARGE, 0), 2>>,
     <<Slot(4, UWOP_SAVE_XMM128, 6), 0, Slot(2, UWOP_ALLOC_SMALL, 1)>>,
     <<Slot(4, UWOP_SAVE_XMM128_FAR, 6), 0, 0, Slot(2, UWOP_ALLOC_SMALL, 1)>>,
     <<Slot(4, UWOP_SET_FPREG, 0), Slot(2, UWOP_PUSH_NONVOL, 5)>>,
     <<Slot(2, UWOP_PUSH_MACHFRAME, 0)>>,
     <<Slot(2, UWOP_PUSH_MACHFRAME, 1)>>,
     <<Slot(2, 7, 0)>>,
     <<Slot(2, UWOP_SAVE_NONVOL_FAR, 3), 8>>}

\* the modules: at address 100, with no exception directory or with a table
\* of one RUNTIME_FUNCTION for [102, 112)
UnwindModules ==
    {[address |-> 100, size |-> 16,
      exception |-> [VirtualAddress |-> 0, Size |-> 0],
      functions |-> <<>>,
      readable |-> [functions |-> TRUE, info |-> TRUE, codes |-> TRUE]]}
    \cup
    {[address |-> 100, size |-> 16,
      exception |-> [VirtualAddress |-> 14, Size |-> 12],
      functions |-> <<[BeginAddress |-> 2, EndAddress |-> 12,
                       UnwindInfo |-> [version_flags |-> 1 + 8 * flags,
                                       size_of_prolog |-> 4,
                                       count_of_codes |-> Len(codes),
                                       frame_register_offset |-> fro,
                                       codes |-> codes]]>>,
      readable |-> rd] :
        flags \in {0, UNW_FLAG_CHAININFO}, fro \in {0, 5}, codes \in CodeSlotLists,
        rd \in {[functions |-> TRUE, info |-> TRUE, codes |-> TRUE],
                [functions |-> FALSE, info |-> TRUE, codes |-> TRUE],
                [functions |-> TRUE, info |-> FALSE, codes |-> TRUE],
                [functions |-> TRUE, info |-> TRUE, codes |-> FALSE]}}

UnwindContextArgs ==
    {[fn |-> "unwind_context",
      context |-> [Rip |-> rip, gpr |-> [EntryGpr EXCEPT ![REG_RSP] = 8]],
      source |-> [readable |-> rd, bytes |-> WriteWord(EntryBytes, 8, ret)]] :
        rip \in {99, 100, 102, 104, 106}, rd \in {StackAddrs, {}}, ret \in {204, 0}}

InitUnwind ==
    /\ pc = "call"
    /\ \/ args \in ApplyUnwindArgs /\ module_list = <<>>
       \/ args \in UnwindContextArgs /\ module_list \in {<<m>> : m \in UnwindModules}
    /\ result = NotCalled
    /\ breakpoints = <<>>
    /\ thread_list = <<>>
    /\ os_ctx = [t \in Tids |-> ZeroContext]
    /\ written = {}
    /\ ctx = ZeroContext
    /\ bp_index = NotCalled
    /\ expect_step_exception = FALSE
    /\ os_event = [code |-> "none"]
    /\ debug_event = [kind |-> "none"]
    /\ continue_status = DBG_CONTINUE
    /\ is_exit = FALSE
    /\ os_threads = {}
    /\ announced = {}
    /\ last_cmd = NoCmd
    /\ panic_msg = "none"
    /\ nevents = 0
    /\ ncmds = 0
    /\ os_images = {}
    /\ last_continue = NotCalled

CallApplyUnwindOps ==
    /\ pc = "call"
    /\ args.fn = "apply_unwind_ops"
    /\ result' = apply_unwind_ops(args.context, args.unwind_ops, args.func_address,
                                  args.source)
    /\ panic_msg' = IF result'.panicked THEN result'.msg ELSE panic_msg
    /\ pc' = "called"
    /\ UNCHANGED <<breakpoints, thread_list, module_list, expect_step_exception,
                   os_event, debug_event, ctx, continue_status, is_exit, bp_index,
                   os_threads, os_ctx, announced, written, last_cmd,
                   nevents, ncmds, os_images, last_continue, args>>

CallUnwindContext ==
    /\ pc = "call"
    /\ args.fn = "unwind_context"
    /\ result' = unwind_context(module_list, args.context, args.source)
    /\ panic_msg' = IF result'.panicked THEN result'.msg ELSE panic_msg
    /\ pc' = "called"
    /\ UNCHANGED <<breakpoints, thread_list, module_list, expect_step_exception,
                   os_event, debug_event, ctx, continue_status, is_exit, bp_index,
                   os_threads, os_ctx, announced, written, last_cmd,
                   nevents, ncmds, os_images, last_continue, args>>

NextUnwind == CallApplyUnwindOps \/ CallUnwindContext

SpecUnwind == InitUnwind /\ [][NextUnwind]_vars

\* apply_breakpoints alone, called on a thread list, a resume thread, any
\* outcome of GetThreadContext and SetThreadContext per thread, and thread
\* contexts that are clear or carry debug registers and a resume flag from
\* before. args keeps the arguments of the call.
ThreadLists ==
    {s \in UNION {[1..n -> Tids] : n \in 0..MaxTid} :
        \A i, j \in 1..Len(s) : i # j => s[i] # s[j]}

UsedContext == [ZeroContext EXCEPT !.Dr1 = 1, !.Dr7 = {DR7_LE_BIT[2]},
                                   !.EFlags = {EFLAG_RF}]

\* a context with every bit of DR7 and EFlags set, the four hit bits and the
\* single-step bit of DR6, and addresses of the debuggee's own in Dr0-Dr3
FullContext == [Dr0 |-> 2, Dr1 |-> 2, Dr2 |-> 2, Dr3 |-> 2,
                Dr6 |-> {DR6_B_BIT[1], DR6_B_BIT[2], DR6_B_BIT[3], DR6_B_BIT[4], 14},
                Dr7 |-> Bits(64), EFlags |-> Bits(32)]

ApplyContexts == {ZeroContext, UsedContext, FullContext}

InitApply ==
    /\ pc = "call"
    /\ breakpoints \in {s \in BreakpointLists : \A k \in 1..Len(s) : s[k].addr = 1}
    /\ thread_list \in ThreadLists
    /\ os_ctx \in {[t \in Tids |-> c] : c \in ApplyContexts}
    /\ \E resume \in Tids, gettable \in SUBSET Tids, settable \in SUBSET Tids :
         args = [resume_thread_id |-> resume, gettable |-> gettable,
                 settable |-> settable, octx |-> os_ctx]
    /\ written = {}
    /\ result = NotCalled
    /\ ctx = ZeroContext
    /\ bp_index = NotCalled
    /\ module_list = <<>>
    /\ expect_step_exception = FALSE
    /\ os_event = [code |-> "none"]
    /\ debug_event = [kind |-> "none"]
    /\ continue_status = DBG_CONTINUE
    /\ is_exit = FALSE
    /\ os_threads = {}
    /\ announced = {}
    /\ last_cmd = NoCmd
    /\ panic_msg = "none"
    /\ nevents = 0
    /\ ncmds = 0
    /\ os_images = {}
    /\ last_continue = NotCalled

CallApplyBreakpoints ==
    /\ pc = "call"
    /\ LET r == apply_breakpoints(breakpoints, thread_list, args.resume_thread_id,
                                  args.gettable, args.settable, os_ctx, {})
       IN /\ os_ctx' = r.ctx
          /\ written' = r.written
    /\ pc' = "called"
    /\ UNCHANGED <<breakpoints, thread_list, module_list, expect_step_exception,
                   os_event, debug_event, ctx, continue_status, is_exit, bp_index,
                   os_threads, announced, last_cmd, panic_msg, nevents, ncmds,
                   os_images, last_continue, args, result>>

NextApply == CallApplyBreakpoints

SpecApply == InitApply /\ [][NextApply]_vars

\* ----------------------------------------------------------------- claims
LiveIds(bps) == {bps[k].id : k \in 1..Len(bps)}
LiveSet(bps) == {bps[k] : k \in 1..Len(bps)}

\* the step is a bp command whose expression evaluated, with a slot free
AddStep ==
    /\ pc = "repl" /\ ncmds' = ncmds + 1
    /\ last_cmd' = Cmd("bp", TRUE)
    /\ Len(breakpoints) < MaxBreakpoints

\* C1: after any sequence of add_breakpoint/clear_breakpoint calls with at most
\* four breakpoints live, an add gives the new breakpoint the smallest id of
\* 0..3 that no live breakpoint uses and leaves the other breakpoints as they
\* are, and the ids of the live breakpoints are pairwise distinct.
C1_LowestFreeId ==
    /\ [](\A i, j \in 1..Len(breakpoints) :
            i # j => breakpoints[i].id # breakpoints[j].id)
    /\ [][AddStep =>
            \E b \in LiveSet(breakpoints') :
               /\ b.id \in (0..3) \ LiveIds(breakpoints)
               /\ \A k \in (0..3) \ LiveIds(breakpoints) : b.id <= k
               /\ LiveSet(breakpoints') = LiveSet(breakpoints) \cup {b}
               /\ Len(breakpoints') = Len(breakpoints) + 1]_vars

\* C1 witness: a bp command has just given id 0 to a new breakpoint while
\* the breakpoint with id 2 is live and id 1 is free (ids {0, 2} arise after
\* an add only by filling the lowest gap).
C1_Witness ==
    /\ last_cmd = Cmd("bp", TRUE)
    /\ LiveIds(breakpoints) = {0, 2}
    /\ breakpoints[1].addr # breakpoints[2].addr

\* C2: a bp command issued while four breakpoints are live leaves the four
\* breakpoints as they are and the REPL prompts again (the session goes on).
C2_FifthBreakpointRejected ==
    [][(pc = "repl" /\ Len(breakpoints) = MaxBreakpoints
          /\ ncmds' = ncmds + 1 /\ last_cmd'.name = "bp")
        => (pc' = "repl" /\ breakpoints' = breakpoints)]_vars

\* the debuggee has been resumed by ContinueDebugEvent and runs
Resumed == pc = "wait" /\ nevents > 0

LE(c, i) == DR7_LE_BIT[i + 1] \in c.Dr7
RW(c, i) == {b \in {DR7_RW_BIT[i + 1] - 1, DR7_RW_BIT[i + 1]} : b \in c.Dr7}
LEN(c, i) == {b \in {DR7_LEN_BIT[i + 1] - 1, DR7_LEN_BIT[i + 1]} : b \in c.Dr7}

\* C3: after apply_breakpoints, in every thread whose context was written,
\* each live breakpoint with id i has its address in Dr_i and DR7 has
\* LE_i = 1, RW_i = 0, LEN_i = 0.
C3_SlotIsBreakpointId ==
    Resumed =>
        \A t \in written : \A b \in LiveSet(breakpoints) :
            /\ DrOf(os_ctx[t], b.id) = b.addr
            /\ LE(os_ctx[t], b.id)
            /\ RW(os_ctx[t], b.id) = {}
            /\ LEN(os_ctx[t], b.id) = {}

\* C4: after apply_breakpoints, in every thread whose context was written,
\* every slot i of 0..3 without a live breakpoint of id i has DR7.LE_i = 0.
C4_UnusedSlotsDisarmed ==
    Resumed =>
        \A t \in written : \A i \in 0..3 :
            i \notin LiveIds(breakpoints) => ~LE(os_ctx[t], i)

\* the slots of 0..3 whose bit B_i is set in Dr6
HitBits(c) == {i \in 0..3 : DR6_B_BIT[i + 1] \in c.Dr6}

\* C5: was_breakpoint_hit returns the lowest i of 0..3 whose bit B_i of
\* ctx.Dr6 is set, and none exactly when no B_i is set, for every context and
\* every breakpoint list.
C5_HitIsLowestSetBit ==
    pc = "called" =>
        IF HitBits(ctx) = {} THEN bp_index = None
        ELSE /\ bp_index.some
             /\ bp_index.val \in HitBits(ctx)
             /\ \A i \in HitBits(ctx) : bp_index.val <= i

\* the exception being handled at the REPL was caused by ...
ExceptionStop(cause) ==
    /\ pc = "repl"
    /\ os_event.code = "EXCEPTION_DEBUG_EVENT"
    /\ os_event.cause = cause

\* C6: an exception raised by the debuggee itself (not a single-step from `t`,
\* not a hit of a breakpoint) is continued with DBG_EXCEPTION_NOT_HANDLED,
\* whatever Dr6 carries from earlier events.
C6_DebuggeeExceptionNotHandled ==
    ExceptionStop("debuggee") => continue_status = DBG_EXCEPTION_NOT_HANDLED

\* C7: every single-step exception that results from a `t` command is
\* continued with DBG_CONTINUE, under every interleaving of events of other
\* threads and of further `t` commands.
C7_StepExceptionSwallowed ==
    ExceptionStop("step") => continue_status = DBG_CONTINUE

\* C8: at every ContinueDebugEvent every live thread of the debuggee resumes
\* with the current breakpoint list in its debug registers: each live
\* breakpoint's address is held by an armed slot of Dr0..Dr3.
C8_AllLiveThreadsProgrammed ==
    Resumed =>
        \A t \in os_threads : \A b \in LiveSet(breakpoints) :
            \E i \in 0..3 : DrOf(os_ctx[t], i) = b.addr /\ LE(os_ctx[t], i)

\* C9: after any sequence of debug events the Process thread set is the set
\* of threads announced by CreateProcess or CreateThread and not yet by
\* ExitThread.
C9_ThreadSetTracksEvents ==
    (pc \in {"repl", "wait"} /\ nevents > 0) =>
        {thread_list[k] : k \in 1..Len(thread_list)} = announced

\* the step delivers a CreateProcess or LoadDll event whose module fails to
\* parse: a required read fails or the machine is not supported
ModuleParseFails ==
    /\ nevents' = nevents + 1
    /\ os_event'.code \in {"CREATE_PROCESS_DEBUG_EVENT", "LOAD_DLL_DEBUG_EVENT"}
    /\ \/ ~os_event'.image.headers
       \/ ~os_event'.image.exports
       \/ os_event'.image.machine # IMAGE_FILE_MACHINE_AMD64

\* C10: a module whose parsing fails on a CreateProcess or LoadDll event
\* fails alone: the module list is unchanged and the loop goes on to the
\* REPL (the session is not terminated).
C10_ModuleParseFailureIsLocal ==
    [][ModuleParseFails => (module_list' = module_list /\ pc' = "repl")]_vars

\* the addresses any image of the model can occupy
ImageAddrs == UNION {Range(b, MaxSize) : b \in ExeBases \cup ModBases}

\* C11: after any sequence of CreateProcess, LoadDll and UnloadDll events no
\* two modules of the Process overlap, and the containing-module lookup
\* returns the one module whose range holds the address, or none when no
\* module holds it.
C11_ModulesDisjoint ==
    /\ \A i, j \in 1..Len(module_list) :
          i # j => Range(module_list[i].address, module_list[i].size)
                     \cap Range(module_list[j].address, module_list[j].size) = {}
    /\ \A a \in ImageAddrs :
          LET holders == {k \in 1..Len(module_list) :
                            a \in Range(module_list[k].address, module_list[k].size)}
              found == get_containing_module_mut(module_list, a)
          IN IF holders = {} THEN found = None
             ELSE found.some /\ holders = {found.val}

\* C12: after any sequence of thread-create and thread-exit events a thread
\* identifier occurs at most once in the Process thread list.
C12_ThreadIdsUnique ==
    \A i, j \in 1..Len(thread_list) : i # j => thread_list[i] # thread_list[j]

\* C12 witness: the id of the initial thread, which CreateProcess put in the
\* list, has been given to a new thread after the initial thread exited, and
\* the CreateThread event of the new thread has been handled.
C12_Witness ==
    /\ pc = "repl"
    /\ os_event.code = "CREATE_THREAD_DEBUG_EVENT"
    /\ os_event.thread_id = MainTid
    /\ MainTid \in {thread_list[k] : k \in 1..Len(thread_list)}

\* the step leaves the REPL with g or t (and SetThreadContext did not fail)
LeavesRepl == pc = "repl" /\ pc' \in {"wait", "done"}

\* the threads of the Process thread list that the OS can open
Openable == {thread_list[k] : k \in 1..Len(thread_list)} \cap os_threads

\* C13 as stated: for every debug event, ExitProcess included, leaving the
\* REPL with g or t runs apply_breakpoints and then ContinueDebugEvent with
\* the selected continuation status.
C13_ResumeAfterEveryEvent ==
    [][LeavesRepl =>
         /\ last_continue' = [called |-> TRUE, status |-> continue_status]
         /\ written' = Openable]_vars

\* C13 amended: for every debug event other than ExitProcess, leaving the
\* REPL with g or t runs apply_breakpoints and then ContinueDebugEvent with
\* the selected continuation status and the loop waits for the next event;
\* after ExitProcess the loop is left with neither call made.
C13_ResumeUnlessExitProcess ==
    [][LeavesRepl =>
         IF os_event.code = "EXIT_PROCESS_DEBUG_EVENT"
         THEN /\ pc' = "done"
              /\ last_continue' = NotCalled
              /\ written' = written
         ELSE /\ pc' = "wait"
              /\ last_continue' = [called |-> TRUE, status |-> continue_status]
              /\ written' = Openable]_vars

\* C13 witness: the REPL of an ExitProcess stop has been left with g or t and
\* the loop has ended without a ContinueDebugEvent call.
C13_Witness ==
    /\ pc = "done"
    /\ os_event.code = "EXIT_PROCESS_DEBUG_EVENT"
    /\ last_cmd.name \in {"g", "t"}
    /\ last_continue = NotCalled

HasRF(c) == EFLAG_RF \in c.EFlags

\* slot idx of a CONTEXT holds the breakpoint at position idx of the list
Programmed(c, bps, idx) ==
    DrOf(c, idx) = bps[idx + 1].addr /\ DR7_LE_BIT[idx + 1] \in c.Dr7

\* C14: apply_breakpoints sets EFlags.RF in the context it writes for the
\* thread whose id is the resume thread, and changes the RF bit of no other
\* thread's context.
C14_ResumeFlagOnResumeThreadOnly ==
    pc = "called" =>
        \A t \in Tids :
            IF t = args.resume_thread_id
            THEN t \in written => HasRF(os_ctx[t])
            ELSE HasRF(os_ctx[t]) <=> HasRF(args.octx[t])

\* C14 witness: the call has written the resume thread and another thread
\* whose RF bit was clear.
C14_Witness ==
    /\ pc = "called"
    /\ args.resume_thread_id \in written
    /\ \E t \in written : t # args.resume_thread_id /\ ~HasRF(args.octx[t])

\* C15: in apply_breakpoints a failure of GetThreadContext or
\* SetThreadContext on one thread of the thread set keeps no other thread of
\* the set from being read, programmed with the breakpoints and written
\* back, and the session goes on.
C15_ThreadFailureIsLocal ==
    pc = "called" =>
        /\ panic_msg = "none"
        /\ \A k \in 1..Len(thread_list) :
              LET t == thread_list[k]
              IN IF t \in args.gettable /\ t \in args.settable
                 THEN /\ t \in written
                      /\ \A idx \in 0..(Len(breakpoints) - 1) :
                            Programmed(os_ctx[t], breakpoints, idx)
                 ELSE t \notin written /\ os_ctx[t] = args.octx[t]

\* C15 witness: the context of a thread of the list could not be got or set,
\* and a thread after it in the list has been programmed with a breakpoint.
C15_Witness ==
    /\ pc = "called"
    /\ breakpoints # <<>>
    /\ \E i, j \in 1..Len(thread_list) :
         /\ i < j
         /\ thread_list[i] \notin (args.gettable \cap args.settable)
         /\ thread_list[j] \in written
         /\ Programmed(os_ctx[thread_list[j]], breakpoints, 0)

RangeReadable == \A k \in 0..(args.len - 1) : args.address + k \in args.source.readable

\* C16: read_memory returns, for every address and length, exactly len
\* entries, entry k present iff byte address + k is readable; an unreadable
\* byte in the range gives absent entries and never an error.
C16_ReadMemoryReturnsGaps ==
    (pc = "called" /\ args.fn = "read_memory") =>
        /\ result.val.ok
        /\ result.val.val =
               [k \in 1..args.len |->
                   IF args.address + k - 1 \in args.source.readable
                   THEN Some(args.source.bytes[args.address + k - 1])
                   ELSE None]

\* C17: read_memory_data at an address where fewer than size_of(T) bytes are
\* readable returns an error value to its caller; it does not panic and
\* returns no value.
C17_ReadMemoryDataReturnsError ==
    (pc = "called" /\ args.fn = "read_memory_data" /\ ~RangeReadable) =>
        /\ ~result.panicked
        /\ ~result.val.ok

ReturnSlotReadable ==
    \A a \in Rsp(args.context)..(Rsp(args.context) + 7) : a \in args.source.readable

\* C18: when Rip lies in a module that has no exception directory,
\* unwind_context treats the frame as a leaf and returns the caller context
\* with Rip = the 8 bytes at Rsp and Rsp = Rsp + 8.
C18_NoExceptionDirectoryIsLeaf ==
    (/\ pc = "called"
     /\ args.fn = "unwind_context"
     /\ contains_address(module_list[1], args.context.Rip)
     /\ module_list[1].exception = [VirtualAddress |-> 0, Size |-> 0]
     /\ ReturnSlotReadable) =>
        result = Returned(Ok(Some(
            [args.context EXCEPT
                !.Rip = FromLeBytes([k \in 1..8 |->
                            args.source.bytes[Rsp(args.context) + k - 1]]),
                !.gpr[REG_RSP] = @ + 8])))

\* C19: for every prolog of push, allocation and save steps and every Rip in
\* the function, apply_unwind_ops applies the ops whose code offset is at
\* most Rip - function start and no others, and gives back the Rsp and the
\* registers the reference interpreter had before it executed the prolog up
\* to that offset.
C19_UnwindRestoresEntryState ==
    (pc = "called" /\ args.fn = "apply_unwind_ops") =>
        result = Returned(Ok(Some([Rip |-> args.context.Rip, gpr |-> EntryGpr])))

\* C19 witness: a thread stopped at the end of a prolog instruction with a
\* push or a save behind it and a step of the prolog still ahead, unwound.
C19_Witness ==
    /\ pc = "called"
    /\ args.fn = "apply_unwind_ops"
    /\ args.offset = 2 * args.executed
    /\ args.executed < Len(args.prolog)
    /\ \E k \in 1..args.executed : args.prolog[k].kind \in {"push", "save"}
    /\ Rsp(args.context) < StackTop
    /\ ~result.panicked /\ result.val.ok
    /\ Rsp(result.val.val.val) = StackTop

\* the slots of a code list without those of SAVE_XMM128, SAVE_XMM128_FAR,
\* SET_FPREG and PUSH_MACHFRAME
SlotCount(slot) ==
    LET f == split_up_8_4_4(slot)
    IN IF f.unwind_op \in {UWOP_ALLOC_LARGE} THEN 2 + f.op_info
       ELSE IF f.unwind_op \in {UWOP_SAVE_NONVOL, UWOP_SAVE_XMM128} THEN 2
       ELSE IF f.unwind_op \in {UWOP_SAVE_NONVOL_FAR, UWOP_SAVE_XMM128_FAR} THEN 3
       ELSE 1

RECURSIVE RemainingSlots(_)
RemainingSlots(code_slots) ==
    IF code_slots = <<>> THEN <<>>
    ELSE LET n == SlotCount(Head(code_slots))
             rest == RemainingSlots(SubSeq(code_slots, n + 1, Len(code_slots)))
         IN IF split_up_8_4_4(Head(code_slots)).unwind_op \in
                  {UWOP_SAVE_XMM128, UWOP_SAVE_XMM128_FAR, UWOP_SET_FPREG,
                   UWOP_PUSH_MACHFRAME}
            THEN rest
            ELSE SubSeq(code_slots, 1, n) \o rest

RECURSIVE KnownOps(_)
KnownOps(code_slots) ==
    \/ code_slots = <<>>
    \/ /\ split_up_8_4_4(Head(code_slots)).unwind_op \in
              {UWOP_PUSH_NONVOL, UWOP_ALLOC_LARGE, UWOP_ALLOC_SMALL, UWOP_SET_FPREG,
               UWOP_SAVE_NONVOL, UWOP_SAVE_NONVOL_FAR, UWOP_SAVE_XMM128,
               UWOP_SAVE_XMM128_FAR, UWOP_PUSH_MACHFRAME}
       /\ SlotCount(Head(code_slots)) <= Len(code_slots)
       /\ KnownOps(SubSeq(code_slots, SlotCount(Head(code_slots)) + 1, Len(code_slots)))

\* C20: a function whose unwind codes include SAVE_XMM128, SAVE_XMM128_FAR,
\* SET_FPREG or PUSH_MACHFRAME is unwound without failure, to the caller
\* context that the remaining ops alone give.
C20_IgnoredOpsDoNotFail ==
    (/\ pc = "called"
     /\ args.fn = "unwind_context"
     /\ module_list[1].functions # <<>>
     /\ KnownOps(module_list[1].functions[1].UnwindInfo.codes)) =>
        /\ ~result.panicked
        /\ result.val # Err("Unrecognized unwind op")
        /\ result =
             unwind_context(
                 <<[module_list[1] EXCEPT !.functions[1].UnwindInfo.codes =
                                              RemainingSlots(@)]>>,
                 args.context, args.source)

ReturnsCaller == ~result.panicked /\ result.val.ok /\ result.val.val.some

\* C21: unwind_context returns "no further frame" whenever the return address
\* it reads for the caller is 0, on the unwind-info path and on the leaf path
\* alike; it never returns a caller context whose Rip is 0.
C21_ZeroReturnAddressEndsStack ==
    (pc = "called" /\ args.fn = "unwind_context" /\ ReturnsCaller) =>
        result.val.val.val.Rip # 0

\* ------------------------------------------------------- name resolution

\* enum ExportTarget { RVA(u64), Forwarder(String) } and struct Export
RVA(addr) == [rva |-> TRUE, addr |-> addr]
Forwarder(name) == [rva |-> FALSE, name |-> name]
Export(name, ordinal, target) == [name |-> name, ordinal |-> ordinal, target |-> target]

\* format!("{}", n) and format!("{:X}", n) of an unsigned integer
DecDigits == <<"0", "1", "2", "3", "4", "5", "6", "7", "8", "9">>

HexDigits == DecDigits \o <<"A", "B", "C", "D", "E", "F">>

RECURSIVE FormatDecimal(_)
FormatDecimal(n) ==
    IF n < 10 THEN DecDigits[n + 1]
    ELSE FormatDecimal(n \div 10) \o DecDigits[(n % 10) + 1]

RECURSIVE FormatUpperHex(_)
FormatUpperHex(n) ==
    IF n < 16 THEN HexDigits[n + 1]
    ELSE FormatUpperHex(n \div 16) \o HexDigits[(n % 16) + 1]

\* impl ToString for Export
Export_to_string(export) ==
    IF export.name.some THEN export.name.val
    ELSE "Ordinal" \o FormatDecimal(export.ordinal)

\* enum AddressMatch { None, Export(&Export), Public(String) }
AddressMatchNone == [kind |-> "None"]
AddressMatchExport(export) == [kind |-> "Export", export |-> export]
AddressMatchPublic(name) == [kind |-> "Public", name |-> name]

\* one turn of `for export in module.exports.iter()` in resolve_address_to_name;
\* st holds closest and closest_addr
ClosestExportTurn(export, address, st) ==
    IF /\ export.target.rva
       /\ export.target.addr <= address
       /\ (st.closest.kind = "None" \/ st.closest_addr < export.target.addr)
    THEN [closest |-> AddressMatchExport(export), closest_addr |-> export.target.addr]
    ELSE st

RECURSIVE ClosestExportLoop(_, _, _, _)
ClosestExportLoop(exports, address, i, st) ==
    IF i > Len(exports) THEN st
    ELSE ClosestExportLoop(exports, address, i + 1,
                           ClosestExportTurn(exports[i], address, st))

\* one turn of `while let Ok(Some(symbol)) = symbols.next()` over the global
\* symbols of the PDB: a public function symbol at or below the address
\* replaces a match that is not above it
ClosestPublicTurn(module, data, address, st) ==
    IF /\ data.function
       /\ module.address + data.rva <= address
       /\ (st.closest.kind = "None" \/ st.closest_addr <= module.address + data.rva)
    THEN [closest |-> AddressMatchPublic(data.name),
          closest_addr |-> module.address + data.rva]
    ELSE st

RECURSIVE ClosestPublicLoop(_, _, _, _, _)
ClosestPublicLoop(module, symbols, address, i, st) ==
    IF i > Len(symbols) THEN st
    ELSE ClosestPublicLoop(module, symbols, address, i + 1,
                           ClosestPublicTurn(module, symbols[i], address, st))

\* if let Some(pdb) = module.pdb.as_mut()
ClosestPublic(module, address, st) ==
    IF module.pdb.some
    THEN ClosestPublicLoop(module, module.pdb.val.publics, address, 1, st)
    ELSE st

\* format!("{}!{}", ..) or format!("{}!{}+0x{:X}", ..)
SymWithOffset(module_name, closest, offset) ==
    IF offset = 0 THEN module_name \o "!" \o closest
    ELSE module_name \o "!" \o closest \o "+0x" \o FormatUpperHex(offset)

\* the two `if let AddressMatch::.. = closest` at the end
NameOfMatch(module, address, st) ==
    IF st.closest.kind = "Export"
    THEN Some(SymWithOffset(module.name, Export_to_string(st.closest.export),
                            address - st.closest_addr))
    ELSE IF st.closest.kind = "Public"
    THEN Some(SymWithOffset(module.name, st.closest.name, address - st.closest_addr))
    ELSE None

ResolveInModule(module, address) ==
    NameOfMatch(module, address,
        ClosestPublic(module, address,
            ClosestExportLoop(module.exports, address, 1,
                              [closest |-> AddressMatchNone, closest_addr |-> 0])))

\* pub fn resolve_address_to_name(address: u64, process: &mut Process) -> Option<String>
resolve_address_to_name(address, ml) ==
    LET found == get_containing_module_mut(ml, address)
    IN IF ~found.some THEN None ELSE ResolveInModule(ml[found.val], address)

\* ------------------------------------------------------ module lookup by name

\* str::to_lowercase on the letters A-Z
UpperLetters == "ABCDEFGHIJKLMNOPQRSTUVWXYZ"

LowerLetters == "abcdefghijklmnopqrstuvwxyz"

CharAt(s, i) == SubSeq(s, i, i)

LowerChar(c) ==
    IF \E i \in 1..Len(UpperLetters) : CharAt(UpperLetters, i) = c
    THEN CharAt(LowerLetters, CHOOSE i \in 1..Len(UpperLetters) : CharAt(UpperLetters, i) = c)
    ELSE c

RECURSIVE to_lowercase(_)
to_lowercase(s) ==
    IF Len(s) = 0 THEN s ELSE LowerChar(Head(s)) \o to_lowercase(Tail(s))

\* position of the last occurrence of a character, 0 when there is none
LastIndexOf(s, c) ==
    IF \E i \in 1..Len(s) : CharAt(s, i) = c
    THEN CHOOSE i \in 1..Len(s) :
            CharAt(s, i) = c /\ \A j \in (i + 1)..Len(s) : CharAt(s, j) # c
    ELSE 0

\* module.name.rsplitn(2, '\\').next().unwrap_or(&module.name)
TrimmedName(name) == SubSeq(name, LastIndexOf(name, "\\") + 1, Len(name))

\* trimmed.rsplitn(2, '.').collect(): parts[1] when there are two parts,
\* else parts[0]
TrimmedNoExt(trimmed) ==
    IF LastIndexOf(trimmed, ".") # 0
    THEN SubSeq(trimmed, 1, LastIndexOf(trimmed, ".") - 1)
    ELSE trimmed

\* one turn of `for module in self.module_list.iter_mut()` with every match
\* replacing the one before
ModuleNameTurn_last_match(module, k, module_name, st) ==
    IF module.name = module_name THEN [st EXCEPT !.returned = Some(k)]
    ELSE IF to_lowercase(TrimmedName(module.name)) = to_lowercase(module_name)
    THEN [st EXCEPT !.potential_trimmed_match = Some(k)]
    ELSE IF to_lowercase(TrimmedNoExt(TrimmedName(module.name))) = to_lowercase(module_name)
    THEN [st EXCEPT !.potential_trimmed_noext_match = Some(k)]
    ELSE st

\* one turn of `for module in self.module_list.iter_mut()`; k is the position
\* of the module, which stands for the reference to it
ModuleNameTurn(module, k, module_name, st) ==
    IF module.name = module_name THEN [st EXCEPT !.returned = Some(k)]
    ELSE IF /\ ~st.potential_trimmed_match.some
            /\ to_lowercase(TrimmedName(module.name)) = to_lowercase(module_name)
    THEN [st EXCEPT !.potential_trimmed_match = Some(k)]
    ELSE IF ~st.potential_trimmed_noext_match.some
    THEN IF to_lowercase(TrimmedNoExt(TrimmedName(module.name))) = to_lowercase(module_name)
         THEN [st EXCEPT !.potential_trimmed_noext_match = Some(k)]
         ELSE st
    ELSE st

\* Option::or
OptionOr(a, b) == IF a.some THEN a ELSE b

RECURSIVE ModuleNameLoop(_, _, _, _)
ModuleNameLoop(ml, module_name, k, st) ==
    IF st.returned.some THEN st.returned
    ELSE IF k > Len(ml)
    THEN OptionOr(st.potential_trimmed_match, st.potential_trimmed_noext_match)
    ELSE ModuleNameLoop(ml, module_name, k + 1,
                        ModuleNameTurn(ml[k], k, module_name, st))

\* pub fn get_module_by_name_mut(&mut self, module_name: &str) -> Option<&mut Module>
get_module_by_name_mut(ml, module_name) ==
    ModuleNameLoop(ml, module_name, 1,
                   [returned |-> None,
                    potential_trimmed_match |-> None,
                    potential_trimmed_noext_match |-> None])

\* ------------------------------------------------------- name to address

\* sym.chars().position(|c| c == '!'): the first occurrence, 0 when none
FirstIndexOf(s, c) ==
    IF \E i \in 1..Len(s) : CharAt(s, i) = c
    THEN CHOOSE i \in 1..Len(s) :
            CharAt(s, i) = c /\ \A j \in 1..(i - 1) : CharAt(s, j) # c
    ELSE 0

\* fn resolve_export_in_module(module, func) -> Option<u64>: the first export
\* of that name whose target is an RVA
RECURSIVE ResolveExportLoop(_, _, _)
ResolveExportLoop(exports, func, i) ==
    IF i > Len(exports) THEN None
    ELSE IF /\ exports[i].name.some
            /\ exports[i].name.val = func
            /\ exports[i].target.rva
    THEN Some(exports[i].target.addr)
    ELSE ResolveExportLoop(exports, func, i + 1)

resolve_export_in_module(module, func) == ResolveExportLoop(module.exports, func, 1)

\* fn resolve_symbol_name_in_module(module, func) -> Result<Option<u64>, _>:
\* the first procedure symbol of that name in the PDB
RECURSIVE ResolveProcedureLoop(_, _, _, _)
ResolveProcedureLoop(module, procedures, func, i) ==
    IF i > Len(procedures) THEN Ok(None)
    ELSE IF procedures[i].name = func
    THEN Ok(Some(module.address + procedures[i].rva))
    ELSE ResolveProcedureLoop(module, procedures, func, i + 1)

resolve_symbol_name_in_module(module, func) ==
    IF ~module.pdb.some THEN Err("No PDB loaded")
    ELSE ResolveProcedureLoop(module, module.pdb.val.procedures, func, 1)

\* Result::unwrap_or(None)
UnwrapOrNone(r) == IF r.ok THEN r.val ELSE None

\* pub fn resolve_function_in_module(module, func) -> Option<u64>
resolve_function_in_module(module, func) ==
    OptionOr(resolve_export_in_module(module, func),
             UnwrapOrNone(resolve_symbol_name_in_module(module, func)))

\* the arms of `if let Some(addr) = resolve_function_in_module(..)`
FunctionAddress(addr, func_name, module_name) ==
    IF addr.some THEN Ok(addr.val)
    ELSE Err("Could not find " \o func_name \o " in module " \o module_name)

\* the arms of `if let Some(module) = process.get_module_by_name_mut(..)`
FunctionInModule(ml, found, func_name, module_name) ==
    IF found.some
    THEN FunctionAddress(resolve_function_in_module(ml[found.val], func_name),
                         func_name, module_name)
    ELSE Err("Could not find module " \o module_name)

\* the Some(pos) arm: module_name = &sym[..pos], func_name = &sym[pos + 1..]
ResolveQualified(sym, pos, ml) ==
    FunctionInModule(ml, get_module_by_name_mut(ml, SubSeq(sym, 1, pos - 1)),
                     SubSeq(sym, pos + 1, Len(sym)), SubSeq(sym, 1, pos - 1))

\* pub fn resolve_name_to_address(sym, process) -> Result<u64, anyhow::Error>
resolve_name_to_address(sym, ml) ==
    IF FirstIndexOf(sym, "!") = 0 THEN Err("Not yet implemented")
    ELSE ResolveQualified(sym, FirstIndexOf(sym, "!"), ml)

\* --------------------------------------------------- expression evaluation

\* a u64 as four limbs of 16 bits, the lowest first
LimbBase == 65536

U64(n) == <<n % LimbBase, n \div LimbBase, 0, 0>>

U64Max == <<LimbBase - 1, LimbBase - 1, LimbBase - 1, LimbBase - 1>>

\* the carry out of limb i of x + y
RECURSIVE CarryOut(_, _, _)
CarryOut(x, y, i) ==
    IF i = 0 THEN 0 ELSE (x[i] + y[i] + CarryOut(x, y, i - 1)) \div LimbBase

\* x + y modulo 2^64
WrappingAdd(x, y) ==
    [i \in 1..4 |-> (x[i] + y[i] + CarryOut(x, y, i - 1)) % LimbBase]

\* `x + y` on u64: with overflow checks compiled in (the default of a debug
\* build) an overflow panics, without them (the default of a release build)
\* the sum wraps
u64_add(x, y, overflow_checks) ==
    IF CarryOut(x, y, 4) = 1 /\ overflow_checks
    THEN Panicked("attempt to add with overflow")
    ELSE Returned(Ok(WrappingAdd(x, y)))

\* enum EvalExpr { Number(u64), Symbol(String), Add(Box<EvalExpr>, (), Box<EvalExpr>) }
Number(x) == [kind |-> "Number", val |-> x]
Symbol(sym) == [kind |-> "Symbol", sym |-> sym]
Add(x, y) == [kind |-> "Add", x |-> x, y |-> y]

\* pub fn get_register(context: &CONTEXT, reg_name: &str) -> Result<u64, String>;
\* the context is a record of the registers by their lower-case names
RegisterNames ==
    {"rax", "rbx", "rcx", "rdx", "rsi", "rdi", "rip", "rsp", "rbp",
     "r8", "r9", "r10", "r11", "r12", "r13", "r14", "r15", "eflags"}

get_register(context, reg_name) ==
    IF to_lowercase(reg_name) \in RegisterNames
    THEN Ok(context[to_lowercase(reg_name)])
    ELSE Err("Unrecognized register")

\* resolve_name_to_address(&sym, context.process), its address as a u64
ResolveSymbol(sym, ml) ==
    IF resolve_name_to_address(sym, ml).ok
    THEN Returned(Ok(U64(resolve_name_to_address(sym, ml).val)))
    ELSE Returned(resolve_name_to_address(sym, ml))

\* the EvalExpr::Symbol arm
EvaluateSymbol(sym, register_context, ml) ==
    IF Len(sym) > 0 /\ Head(sym) = "@" /\ get_register(register_context, Tail(sym)).ok
    THEN Returned(get_register(register_context, Tail(sym)))
    ELSE ResolveSymbol(sym, ml)

\* Ok(evaluate_expression(*x, context)? + evaluate_expression(*y, context)?),
\* given what the two evaluations returned
EvaluateAdd(x, y, overflow_checks) ==
    IF x.panicked THEN x
    ELSE IF ~x.val.ok THEN x
    ELSE IF y.panicked THEN y
    ELSE IF ~y.val.ok THEN y
    ELSE u64_add(x.val.val, y.val.val, overflow_checks)

\* pub fn evaluate_expression(expr, context) -> Result<u64, anyhow::Error>
RECURSIVE evaluate_expression(_, _, _, _)
evaluate_expression(expr, register_context, ml, overflow_checks) ==
    IF expr.kind = "Number" THEN Returned(Ok(expr.val))
    ELSE IF expr.kind = "Add"
    THEN EvaluateAdd(evaluate_expression(expr.x, register_context, ml, overflow_checks),
                     evaluate_expression(expr.y, register_context, ml, overflow_checks),
                     overflow_checks)
    ELSE EvaluateSymbol(expr.sym, register_context, ml)

\* Name resolution alone, called on a Process whose module list holds the
\* module "hello.dll" at [100, 120) with up to MaxExports exports, alone, or
\* before another module, or behind a module that the debuggee had at the
\* same base and has unloaded (the list keeps it).
ExportLists(base) ==
    UNION {{[i \in 1..n |-> Export(f[i][1], i, f[i][2])] :
                f \in [1..n -> {None, Some("f"), Some("g")}
                               \X {RVA(base + 1), RVA(base + 3), Forwarder("ntdll.h")}]} :
           n \in 0..MaxExports}

NamedModules ==
    {[name |-> "hello.dll", address |-> 100, size |-> 20, exports |-> e, pdb |-> p] :
        e \in ExportLists(100),
        p \in {None, Some([publics |-> <<[name |-> "main", rva |-> 3, function |-> TRUE],
                                          [name |-> "data", rva |-> 4, function |-> FALSE]>>,
                            procedures |-> <<>>])}}

UnloadedModule ==
    [name |-> "old.dll", address |-> 100, size |-> 20,
     exports |-> <<Export(Some("h"), 1, RVA(102))>>, pdb |-> None]

OtherModule ==
    [name |-> "C:\\sys\\other.dll", address |-> 200, size |-> 20,
     exports |-> <<Export(Some("f"), 1, RVA(201))>>, pdb |-> None]

NamedModuleLists ==
    UNION {{<<m>>, <<m, OtherModule>>, <<UnloadedModule, m>>} : m \in NamedModules}

\* Module lookup by name, called on lists of up to MaxLoaded modules with
\* names that differ in case, path prefix and extension.
ModuleNames ==
    {"foo.dll", "FOO.DLL", "C:\\w\\Foo.dll", "foo", "C:\\w.d\\foo", "foo.exe", "bar.dll"}

LookupLists ==
    UNION {[1..n -> {[name |-> nm, address |-> 100, size |-> 20,
                      exports |-> <<>>, pdb |-> None] : nm \in ModuleNames}] :
           n \in 0..MaxLoaded}

LookupArgs ==
    {[fn |-> "get_module_by_name_mut", module_name |-> q] :
        q \in {"foo.dll", "foo", "FOO", "Foo.DLL", "C:\\w\\Foo.dll", "w\\foo.dll", "baz"}}

InitNames ==
    /\ pc = "call"
    /\ \/ /\ module_list \in NamedModuleLists
          /\ args \in {[fn |-> "resolve_address_to_name", address |-> a] :
                          a \in {99, 100, 101, 102, 103, 104, 111, 117, 119, 120, 201}}
       \/ /\ module_list \in LookupLists
          /\ args \in LookupArgs
    /\ result = NotCalled
    /\ breakpoints = <<>>
    /\ thread_list = <<>>
    /\ os_ctx = [t \in Tids |-> ZeroContext]
    /\ written = {}
    /\ ctx = ZeroContext
    /\ bp_index = NotCalled
    /\ expect_step_exception = FALSE
    /\ os_event = [code |-> "none"]
    /\ debug_event = [kind |-> "none"]
    /\ continue_status = DBG_CONTINUE
    /\ is_exit = FALSE
    /\ os_threads = {}
    /\ announced = {}
    /\ last_cmd = NoCmd
    /\ panic_msg = "none"
    /\ nevents = 0
    /\ ncmds = 0
    /\ os_images = {}
    /\ last_continue = NotCalled

CallResolveAddressToName ==
    /\ pc = "call"
    /\ args.fn = "resolve_address_to_name"
    /\ result' = Returned(resolve_address_to_name(args.address, module_list))
    /\ pc' = "called"
    /\ UNCHANGED <<breakpoints, thread_list, module_list, expect_step_exception,
                   os_event, debug_event, ctx, continue_status, is_exit, bp_index,
                   os_threads, os_ctx, announced, written, last_cmd, panic_msg,
                   nevents, ncmds, os_images, last_continue, args>>

CallGetModuleByNameMut ==
    /\ pc = "call"
    /\ args.fn = "get_module_by_name_mut"
    /\ result' = Returned(get_module_by_name_mut(module_list, args.module_name))
    /\ pc' = "called"
    /\ UNCHANGED <<breakpoints, thread_list, module_list, expect_step_exception,
                   os_event, debug_event, ctx, continue_status, is_exit, bp_index,
                   os_threads, os_ctx, announced, written, last_cmd, panic_msg,
                   nevents, ncmds, os_images, last_continue, args>>

NextNames == CallResolveAddressToName \/ CallGetModuleByNameMut

SpecNames == InitNames /\ [][NextNames]_vars

\* the RVA-target exports of a module at or below an address, and those of
\* them with the highest address
RvaExportsAtOrBelow(module, address) ==
    {i \in 1..Len(module.exports) :
        module.exports[i].target.rva /\ module.exports[i].target.addr <= address}

NearestExports(module, address) ==
    {i \in RvaExportsAtOrBelow(module, address) :
        \A j \in RvaExportsAtOrBelow(module, address) :
            module.exports[j].target.addr <= module.exports[i].target.addr}

ExportSymbol(module, i, address) ==
    IF address = module.exports[i].target.addr
    THEN module.name \o "!" \o Export_to_string(module.exports[i])
    ELSE module.name \o "!" \o Export_to_string(module.exports[i]) \o "+0x"
         \o FormatUpperHex(address - module.exports[i].target.addr)

\* C22: for a module with exports and no PDB and an address inside it,
\* resolve_address_to_name returns `module!export` of the RVA export with the
\* highest address at or below the query, with `+0xOFFSET` when the address
\* is above it; a forwarder is never chosen; the result is none when no
\* module contains the address or no RVA export lies at or below it.
C22_NearestExportBelow ==
    (pc = "called" /\ args.fn = "resolve_address_to_name") =>
        /\ \A k \in 1..Len(module_list) :
              (/\ module_list[k].exports # <<>>
               /\ ~module_list[k].pdb.some
               /\ contains_address(module_list[k], args.address)) =>
                  IF RvaExportsAtOrBelow(module_list[k], args.address) = {}
                  THEN result = Returned(None)
                  ELSE result \in
                         {Returned(Some(ExportSymbol(module_list[k], i, args.address))) :
                             i \in NearestExports(module_list[k], args.address)}
        /\ (\A k \in 1..Len(module_list) :
               ~contains_address(module_list[k], args.address)) =>
              result = Returned(None)

\* the modules of the list that match a name exactly, after stripping the
\* path prefix, and after also stripping the extension
ExactMatches(ml, q) == {k \in 1..Len(ml) : ml[k].name = q}

PathMatches(ml, q) ==
    {k \in 1..Len(ml) : to_lowercase(TrimmedName(ml[k].name)) = to_lowercase(q)}

NoExtMatches(ml, q) ==
    {k \in 1..Len(ml) :
        to_lowercase(TrimmedNoExt(TrimmedName(ml[k].name))) = to_lowercase(q)}

First(S) == CHOOSE k \in S : \A j \in S : k <= j

\* C23: get_module_by_name_mut returns a module whose name equals the query
\* exactly if there is one, wherever it is in the list; otherwise the first
\* module that matches case-insensitively without its path prefix; otherwise
\* the first that matches case-insensitively without path prefix and
\* extension; otherwise none.
C23_ModuleLookupOrder ==
    (pc = "called" /\ args.fn = "get_module_by_name_mut") =>
        IF ExactMatches(module_list, args.module_name) # {}
        THEN result \in {Returned(Some(k)) : k \in ExactMatches(module_list, args.module_name)}
        ELSE IF PathMatches(module_list, args.module_name) # {}
        THEN result = Returned(Some(First(PathMatches(module_list, args.module_name))))
        ELSE IF NoExtMatches(module_list, args.module_name) # {}
        THEN result = Returned(Some(First(NoExtMatches(module_list, args.module_name))))
        ELSE result = Returned(None)

\* C23 witness: no exact match, a module that matches only without its
\* extension ahead of two that match without their path, and the first of
\* these two returned.
C23_Witness ==
    /\ pc = "called"
    /\ args.fn = "get_module_by_name_mut"
    /\ ExactMatches(module_list, args.module_name) = {}
    /\ Cardinality(PathMatches(module_list, args.module_name)) = 2
    /\ NoExtMatches(module_list, args.module_name) # {}
    /\ First(NoExtMatches(module_list, args.module_name))
         < First(PathMatches(module_list, args.module_name))
    /\ result = Returned(Some(First(PathMatches(module_list, args.module_name))))

\* The `?` command alone, at the prompt of a stop: the expressions the
\* grammar yields for up to MaxAdds additions (`+` is left-associative and
\* there are no parentheses), over a context whose Rax is the highest u64, a
\* process with the modules hello.exe (export main, forwarder fwd, procedure
\* helper in its PDB) and @foo.dll (export bar), in a build with or without
\* overflow checks.
RegisterOrder ==
    <<"rax", "rbx", "rcx", "rdx", "rsi", "rdi", "rip", "rsp", "rbp",
      "r8", "r9", "r10", "r11", "r12", "r13", "r14", "r15", "eflags">>

EvalRegisters ==
    [n \in RegisterNames |->
        IF n = "rip" THEN U64(104)
        ELSE IF n = "rax" THEN U64Max
        ELSE U64(16 + CHOOSE i \in 1..Len(RegisterOrder) : RegisterOrder[i] = n)]

EvalModules ==
    <<[name |-> "C:\\bin\\hello.exe", address |-> 100, size |-> 20,
       exports |-> <<Export(Some("fwd"), 1, Forwarder("ntdll.h")),
                     Export(Some("main"), 2, RVA(104))>>,
       pdb |-> Some([publics |-> <<>>,
                     procedures |-> <<[name |-> "helper", rva |-> 6]>>])],
      [name |-> "C:\\bin\\@foo.dll", address |-> 200, size |-> 20,
       exports |-> <<Export(Some("bar"), 1, RVA(201))>>,
       pdb |-> None]>>

EvalOperands ==
    {Number(U64(1)), Number(U64(48)), Number(U64Max),
     Symbol("@rip"), Symbol("@RAX"), Symbol("@foo"), Symbol("@foo!bar"),
     Symbol("hello!main"), Symbol("hello!nope"), Symbol("main")}

EvalSymbols ==
    {Symbol("@Eflags"), Symbol("@r15"), Symbol("@rip!main"), Symbol("@"),
     Symbol("hello.exe!helper"), Symbol("HELLO!fwd"), Symbol("nomod!main")}

RECURSIVE ExprsWithAdds(_)
ExprsWithAdds(n) ==
    IF n = 0 THEN EvalOperands
    ELSE {Add(x, y) : x \in ExprsWithAdds(n - 1), y \in EvalOperands}

EvalExprs == EvalSymbols \cup UNION {ExprsWithAdds(n) : n \in 0..MaxAdds}

InitEval ==
    /\ pc = "repl"
    /\ module_list = EvalModules
    /\ args \in {[fn |-> "evaluate_expression", expr |-> e,
                  register_context |-> EvalRegisters, overflow_checks |-> oc] :
                    e \in EvalExprs, oc \in BOOLEAN}
    /\ result = NotCalled
    /\ breakpoints = <<>>
    /\ thread_list = <<>>
    /\ os_ctx = [t \in Tids |-> ZeroContext]
    /\ written = {}
    /\ ctx = ZeroContext
    /\ bp_index = NotCalled
    /\ expect_step_exception = FALSE
    /\ os_event = [code |-> "none"]
    /\ debug_event = [kind |-> "none"]
    /\ continue_status = DBG_CONTINUE
    /\ is_exit = FALSE
    /\ os_threads = {}
    /\ announced = {}
    /\ last_cmd = NoCmd
    /\ panic_msg = "none"
    /\ nevents = 0
    /\ ncmds = 0
    /\ os_images = {}
    /\ last_continue = NotCalled

\* CommandExpr::Evaluate with the closure eval_expr: a panic of the
\* evaluation unwinds out of main_debugger_loop, an error is printed and the
\* loop reads the next command
CmdEvaluate ==
    /\ pc = "repl"
    /\ last_cmd = NoCmd
    /\ args.fn = "evaluate_expression"
    /\ result' = evaluate_expression(args.expr, args.register_context, module_list,
                                     args.overflow_checks)
    /\ panic_msg' = IF result'.panicked THEN result'.msg ELSE panic_msg
    /\ pc' = IF result'.panicked THEN "panic" ELSE "repl"
    /\ last_cmd' = Cmd("?", ~result'.panicked /\ result'.val.ok)
    /\ UNCHANGED <<breakpoints, thread_list, module_list, expect_step_exception,
                   os_event, debug_event, ctx, continue_status, is_exit, bp_index,
                   os_threads, os_ctx, announced, written,
                   nevents, ncmds, os_images, last_continue, args>>

NextEval == CmdEvaluate

SpecEval == InitEval /\ [][NextEval]_vars

Evaluated == last_cmd.name = "?" /\ args.fn = "evaluate_expression"

\* C24: a symbol that begins with `@` evaluates to the register of that
\* name, whatever the case of the letters, when it names one of rax..r15,
\* rip, rsp, rbp, eflags, and fails with the unknown-register error for
\* every other name; it is never resolved through module and symbol lookup.
C24_AtSymbolIsRegisterOnly ==
    (/\ Evaluated
     /\ args.expr.kind = "Symbol"
     /\ Len(args.expr.sym) > 0
     /\ Head(args.expr.sym) = "@") =>
        IF to_lowercase(Tail(args.expr.sym)) \in RegisterNames
        THEN result =
               Returned(Ok(args.register_context[to_lowercase(Tail(args.expr.sym))]))
        ELSE result = Returned(Err("Unrecognized register"))

\* pairs of u64 values whose sum is 2^64 or more
OverflowPairs ==
    {<<U64Max, U64(1)>>, <<U64Max, U64Max>>, <<U64(48), U64Max>>,
     <<<<0, 0, 0, LimbBase \div 2>>, <<0, 0, 0, LimbBase \div 2>>>>}

Overflows(x, y) == CarryOut(x, y, 4) = 1

\* C25: `x + y` behaves in one way on overflow: either every pair with
\* x + y >= 2^64 yields an evaluation error, or every such pair yields
\* (x + y) mod 2^64; in both cases control returns to the prompt and the
\* session continues.
C25_AddOverflowConsistent ==
    (/\ Evaluated
     /\ args.expr.kind = "Add"
     /\ args.expr.x.kind = "Number"
     /\ args.expr.y.kind = "Number"
     /\ Overflows(args.expr.x.val, args.expr.y.val)) =>
        /\ pc = "repl"
        /\ ~result.panicked
        /\ \/ \A p \in OverflowPairs :
                 /\ ~u64_add(p[1], p[2], args.overflow_checks).panicked
                 /\ ~u64_add(p[1], p[2], args.overflow_checks).val.ok
           \/ \A p \in OverflowPairs :
                 u64_add(p[1], p[2], args.overflow_checks)
                   = Returned(Ok(WrappingAdd(p[1], p[2])))
        /\ \/ ~result.val.ok
           \/ result.val = Ok(WrappingAdd(args.expr.x.val, args.expr.y.val))

\* the reference evaluator: the set of outcomes it allows for an expression,
\* a value or RefError. A sum of 2^64 or more may be an error or wrap.
RefError == <<>>

RefSymbol(sym, register_context, ml) ==
    IF /\ Len(sym) > 0
       /\ Head(sym) = "@"
       /\ to_lowercase(Tail(sym)) \in RegisterNames
    THEN {register_context[to_lowercase(Tail(sym))]}
    ELSE IF FirstIndexOf(sym, "!") # 0 /\ resolve_name_to_address(sym, ml).ok
    THEN {U64(resolve_name_to_address(sym, ml).val)}
    ELSE {RefError}

RefAdd(xs, ys) ==
    UNION {IF x = RefError \/ y = RefError THEN {RefError}
           ELSE IF Overflows(x, y) THEN {RefError, WrappingAdd(x, y)}
           ELSE {WrappingAdd(x, y)} : x \in xs, y \in ys}

RECURSIVE RefEval(_, _, _)
RefEval(expr, register_context, ml) ==
    IF expr.kind = "Number" THEN {expr.val}
    ELSE IF expr.kind = "Add"
    THEN RefAdd(RefEval(expr.x, register_context, ml),
                RefEval(expr.y, register_context, ml))
    ELSE RefSymbol(expr.sym, register_context, ml)

\* C26: evaluate_expression equals the reference evaluator: a literal is
\* itself, Add the sum of its operands, `@reg` the register of the current
\* thread's context, `module!name` the address name resolution gives; a bare
\* name and an unknown symbol are errors, and an error in a sub-expression
\* is an error of the whole.
C26_EvaluateEqualsReference ==
    Evaluated =>
        /\ ~result.panicked
        /\ IF result.val.ok
           THEN result.val.val \in RefEval(args.expr, args.register_context, module_list)
           ELSE RefError \in RefEval(args.expr, args.register_context, module_list)

\* ------------------------------------------------------ source file matching

\* std::path on Windows. A path is its prefix (a drive, "" when none),
\* whether it has a root, and its normal components.
IsSeparator(c) == c = "\\" \/ c = "/"

PathPrefix(s) == IF Len(s) >= 2 /\ CharAt(s, 2) = ":" THEN SubSeq(s, 1, 2) ELSE ""

\* the components between separators from position i on; cur is the
\* component being read
RECURSIVE SplitNames(_, _, _)
SplitNames(s, i, cur) ==
    IF i > Len(s) THEN (IF cur = "" THEN <<>> ELSE <<cur>>)
    ELSE IF IsSeparator(CharAt(s, i))
    THEN (IF cur = "" THEN <<>> ELSE <<cur>>) \o SplitNames(s, i + 1, "")
    ELSE SplitNames(s, i + 1, cur \o CharAt(s, i))

NotCurDir(name) == name # "."

\* Path::new(s)
PathNew(s) ==
    [prefix |-> PathPrefix(s),
     root |-> /\ Len(s) > Len(PathPrefix(s))
              /\ IsSeparator(CharAt(s, Len(PathPrefix(s)) + 1)),
     names |-> SelectSeq(SplitNames(s, Len(PathPrefix(s)) + 1, ""), NotCurDir)]

\* Path::is_absolute
is_absolute(path) == path.prefix # "" /\ path.root

\* file_path.components().map(|c| c.as_os_str().to_str().unwrap()).collect()
components(path) ==
    (IF path.prefix # "" THEN <<path.prefix>> ELSE <<>>)
    \o (IF path.root THEN <<"\\">> ELSE <<>>)
    \o path.names

\* Path::join / PathBuf::push: a path with a prefix replaces the base, a
\* rooted path keeps only the prefix of the base, a relative path is appended
path_join(base, path) ==
    IF path.prefix # "" THEN path
    ELSE IF path.root THEN [prefix |-> base.prefix, root |-> TRUE, names |-> path.names]
    ELSE [base EXCEPT !.names = @ \o path.names]

\* components[i..].iter().collect::<PathBuf>(): every component pushed in turn
RECURSIVE CollectPath(_, _, _)
CollectPath(strs, i, buf) ==
    IF i > Len(strs) THEN buf
    ELSE CollectPath(strs, i + 1, path_join(buf, PathNew(strs[i])))

EmptyPath == [prefix |-> "", root |-> FALSE, names |-> <<>>]

\* search_path.join(components[i..].iter().collect::<PathBuf>())
TestPath(search_path, comps, i) ==
    path_join(search_path, CollectPath(SubSeq(comps, i, Len(comps)), 1, EmptyPath))

\* Path::exists, on a file system given as the set of the paths that exist
exists(fs, path) == path \in fs

\* `for i in 0..components.len()` taken from the shortest suffix to the longest
RECURSIVE SuffixLoop_shortest_first(_, _, _, _)
SuffixLoop_shortest_first(search_path, comps, fs, i) ==
    IF i > Len(comps) THEN None
    ELSE IF exists(fs, TestPath(search_path, comps, Len(comps) + 1 - i))
    THEN Some(TestPath(search_path, comps, Len(comps) + 1 - i))
    ELSE SuffixLoop_shortest_first(search_path, comps, fs, i + 1)

\* `for i in 0..components.len()`: the first test_path that exists
RECURSIVE SuffixLoop(_, _, _, _)
SuffixLoop(search_path, comps, fs, i) ==
    IF i > Len(comps) THEN None
    ELSE IF exists(fs, TestPath(search_path, comps, i))
    THEN Some(TestPath(search_path, comps, i))
    ELSE SuffixLoop(search_path, comps, fs, i + 1)

\* `for search_path in search_paths`
RECURSIVE SearchPathsLoop(_, _, _, _)
SearchPathsLoop(comps, search_paths, fs, r) ==
    IF r > Len(search_paths) THEN Err("File not found")
    ELSE IF SuffixLoop(PathNew(search_paths[r]), comps, fs, 1).some
    THEN Ok(SuffixLoop(PathNew(search_paths[r]), comps, fs, 1).val)
    ELSE SearchPathsLoop(comps, search_paths, fs, r + 1)

\* pub fn find_source_file_match(file: &str, search_paths: &Vec<String>) -> Result<PathBuf>
find_source_file_match(file, search_paths, fs) ==
    IF is_absolute(PathNew(file)) /\ exists(fs, PathNew(file))
    THEN Ok(PathNew(file))
    ELSE SearchPathsLoop(components(PathNew(file)), search_paths, fs, 1)

\* find_source_file_match alone: a file name from the PDB, up to MaxRoots
\* search paths, and any set of existing files among FilePool.
FileHints == {"a\\b\\c.rs", "a/b/c.rs", "c.rs", "C:\\a\\b\\c.rs", "\\b\\c.rs", ""}

SearchRoots == {"X:\\y", "D:\\src\\", "rel"}

FilePool ==
    {PathNew("X:\\y\\a\\b\\c.rs"), PathNew("X:\\y\\b\\c.rs"), PathNew("X:\\y\\c.rs"),
     PathNew("D:\\src\\a\\b\\c.rs"), PathNew("D:\\src\\c.rs"), PathNew("C:\\a\\b\\c.rs"),
     PathNew("rel\\b\\c.rs"), PathNew("X:\\b\\c.rs")}

SourceArgs ==
    {[fn |-> "find_source_file_match", file |-> f, search_paths |-> sp, fs |-> fs] :
        f \in FileHints,
        sp \in UNION {[1..n -> SearchRoots] : n \in 0..MaxRoots},
        fs \in SUBSET FilePool}

InitSource ==
    /\ pc = "call"
    /\ args \in SourceArgs
    /\ result = NotCalled
    /\ module_list = <<>>
    /\ breakpoints = <<>>
    /\ thread_list = <<>>
    /\ os_ctx = [t \in Tids |-> ZeroContext]
    /\ written = {}
    /\ ctx = ZeroContext
    /\ bp_index = NotCalled
    /\ expect_step_exception = FALSE
    /\ os_event = [code |-> "none"]
    /\ debug_event = [kind |-> "none"]
    /\ continue_status = DBG_CONTINUE
    /\ is_exit = FALSE
    /\ os_threads = {}
    /\ announced = {}
    /\ last_cmd = NoCmd
    /\ panic_msg = "none"
    /\ nevents = 0
    /\ ncmds = 0
    /\ os_images = {}
    /\ last_continue = NotCalled

CallFindSourceFileMatch ==
    /\ pc = "call"
    /\ args.fn = "find_source_file_match"
    /\ result' = Returned(find_source_file_match(args.file, args.search_paths, args.fs))
    /\ pc' = "called"
    /\ UNCHANGED <<breakpoints, thread_list, module_list, expect_step_exception,
                   os_event, debug_event, ctx, continue_status, is_exit, bp_index,
                   os_threads, os_ctx, announced, written, last_cmd, panic_msg,
                   nevents, ncmds, os_images, last_continue, args>>

NextSource == CallFindSourceFileMatch

SpecSource == InitSource /\ [][NextSource]_vars

\* the suffixes of the hint path, the longest first, joined to root r
HintSuffixes == Len(components(PathNew(args.file)))

Candidate(r, i) ==
    TestPath(PathNew(args.search_paths[r]), components(PathNew(args.file)), i)

ExistingCandidates ==
    {c \in (1..Len(args.search_paths)) \X (1..HintSuffixes) :
        Candidate(c[1], c[2]) \in args.fs}

Before(c, d) == c[1] < d[1] \/ (c[1] = d[1] /\ c[2] <= d[2])

\* C27: find_source_file_match returns the hint itself when it is absolute
\* and exists; otherwise the first root-joined suffix that exists, taking the
\* search roots in order and for each root the suffixes of the hint from the
\* longest to the shortest; it returns an error exactly when none exists.
C27_FirstExistingSuffix ==
    (pc = "called" /\ args.fn = "find_source_file_match") =>
        IF is_absolute(PathNew(args.file)) /\ PathNew(args.file) \in args.fs
        THEN result = Returned(Ok(PathNew(args.file)))
        ELSE IF ExistingCandidates = {}
        THEN ~result.val.ok
        ELSE \E c \in ExistingCandidates :
                /\ \A d \in ExistingCandidates : Before(c, d)
                /\ result = Returned(Ok(Candidate(c[1], c[2])))

\* C27 witness: a relative hint of three components and two roots; under the
\* first root only a shorter suffix exists, under the second the whole hint,
\* and the shorter suffix under the first root is returned.
C27_Witness ==
    /\ pc = "called"
    /\ args.fn = "find_source_file_match"
    /\ ~is_absolute(PathNew(args.file))
    /\ HintSuffixes = 3
    /\ Len(args.search_paths) = 2
    /\ <<1, 1>> \notin ExistingCandidates
    /\ <<1, 2>> \in ExistingCandidates
    /\ <<2, 1>> \in ExistingCandidates
    /\ result = Returned(Ok(Candidate(1, 2)))

\* ------------------------------------------------------- source excerpt (lsa)

\* a u32 as two limbs of 16 bits, the lower first
U32(n) == <<n % LimbBase, n \div LimbBase>>

U32Le(a, b) == a[2] < b[2] \/ (a[2] = b[2] /\ a[1] <= b[1])

\* std::cmp::max and std::cmp::min
u32_max(a, b) == IF U32Le(a, b) THEN b ELSE a

u32_min(a, b) == IF U32Le(a, b) THEN a ELSE b

\* `a - b` on u32: below zero it panics in a build with overflow checks and
\* wraps in a build without
u32_sub(a, b, overflow_checks) ==
    IF U32Le(b, a)
    THEN Returned(IF a[1] >= b[1] THEN <<a[1] - b[1], a[2] - b[2]>>
                  ELSE <<a[1] + LimbBase - b[1], a[2] - b[2] - 1>>)
    ELSE IF overflow_checks THEN Panicked("attempt to subtract with overflow")
    ELSE Returned(IF a[1] >= b[1] THEN <<a[1] - b[1], a[2] + LimbBase - b[2]>>
                  ELSE <<a[1] + LimbBase - b[1], a[2] + LimbBase - b[2] - 1>>)

\* `a + b` on u32
u32_add(a, b, overflow_checks) ==
    IF (a[2] + b[2] + ((a[1] + b[1]) \div LimbBase)) < LimbBase
    THEN Returned(<<(a[1] + b[1]) % LimbBase, a[2] + b[2] + ((a[1] + b[1]) \div LimbBase)>>)
    ELSE IF overflow_checks THEN Panicked("attempt to add with overflow")
    ELSE Returned(<<(a[1] + b[1]) % LimbBase,
                    (a[2] + b[2] + ((a[1] + b[1]) \div LimbBase)) % LimbBase>>)

\* start..=end as the sequence of its values; empty when start > end
RangeInclusive(start, end) ==
    IF ~U32Le(start, end) THEN <<>>
    ELSE [k \in 1..((end[2] - start[2]) * LimbBase + end[1] - start[1] + 1) |->
            U32(start[1] + k - 1)]

\* the body of the `for print_line_num in ..` loop: one printed line, with
\* `>` when print_line_num == line_number
PrintedLine(print_line_num, line_number, lines) ==
    [print_line_num |-> print_line_num,
     marked |-> print_line_num = line_number,
     text |-> lines[print_line_num[1]]]

PrintedLines(range, line_number, lines) ==
    [k \in 1..Len(range) |-> PrintedLine(range[k], line_number, lines)]

\* (max(1, line_number - 2))..=(min(lines.len() as u32, line_number + 2)),
\* given what the subtraction and the addition returned
ExcerptRange(first, last, line_number, lines) ==
    IF first.panicked THEN first
    ELSE IF last.panicked THEN last
    ELSE Returned(PrintedLines(RangeInclusive(u32_max(U32(1), first.val),
                                              u32_min(U32(Len(lines)), last.val)),
                               line_number, lines))

\* the excerpt that CommandExpr::ListSource prints once the file is open
PrintExcerpt(line_number, lines, overflow_checks) ==
    ExcerptRange(u32_sub(line_number, U32(2), overflow_checks),
                 u32_add(line_number, U32(2), overflow_checks),
                 line_number, lines)

\* The `lsa` command alone once the address is resolved to a line of a file
\* that is found and opened: files of up to MaxLines lines and line numbers
\* from 0 to one past the longest file, in a build with or without overflow
\* checks.
SourceFiles == {[k \in 1..n |-> 64 + k] : n \in 0..MaxLines}

InitListSource ==
    /\ pc = "repl"
    /\ args \in {[fn |-> "lsa", line_number |-> U32(l), lines |-> f,
                  overflow_checks |-> oc] :
                    l \in 0..(MaxLines + 1), f \in SourceFiles, oc \in BOOLEAN}
    /\ result = NotCalled
    /\ module_list = <<>>
    /\ breakpoints = <<>>
    /\ thread_list = <<>>
    /\ os_ctx = [t \in Tids |-> ZeroContext]
    /\ written = {}
    /\ ctx = ZeroContext
    /\ bp_index = NotCalled
    /\ expect_step_exception = FALSE
    /\ os_event = [code |-> "none"]
    /\ debug_event = [kind |-> "none"]
    /\ continue_status = DBG_CONTINUE
    /\ is_exit = FALSE
    /\ os_threads = {}
    /\ announced = {}
    /\ last_cmd = NoCmd
    /\ panic_msg = "none"
    /\ nevents = 0
    /\ ncmds = 0
    /\ os_images = {}
    /\ last_continue = NotCalled

\* CommandExpr::ListSource from `Ok((file_name, line_number))` with the file
\* found and opened; result is what was printed
CmdListSource ==
    /\ pc = "repl"
    /\ last_cmd = NoCmd
    /\ args.fn = "lsa"
    /\ result' = PrintExcerpt(args.line_number, args.lines, args.overflow_checks)
    /\ panic_msg' = IF result'.panicked THEN result'.msg ELSE panic_msg
    /\ pc' = IF result'.panicked THEN "panic" ELSE "repl"
    /\ last_cmd' = Cmd("lsa", TRUE)
    /\ UNCHANGED <<breakpoints, thread_list, module_list, expect_step_exception,
                   os_event, debug_event, ctx, continue_status, is_exit, bp_index,
                   os_threads, os_ctx, announced, written,
                   nevents, ncmds, os_images, last_continue, args>>

NextListSource == CmdListSource

SpecListSource == InitListSource /\ [][NextListSource]_vars

\* the line number L and the number of lines N of the command
LineL == args.line_number[1]

LinesN == Len(args.lines)

FirstShown == IF LineL - 2 > 1 THEN LineL - 2 ELSE 1

LastShown == IF LineL + 2 < LinesN THEN LineL + 2 ELSE LinesN

\* C28: for a line number L >= 1 in a file of N >= L lines, `lsa` prints
\* exactly the lines max(1, L-2) .. min(N, L+2) in increasing order and marks
\* line L and only line L; no L ends the session or gives an empty excerpt.
C28_ExcerptAroundLine ==
    (last_cmd.name = "lsa" /\ 1 <= LineL /\ LineL <= LinesN) =>
        /\ pc = "repl"
        /\ ~result.panicked
        /\ result.val =
             [k \in 1..(LastShown - FirstShown + 1) |->
                 [print_line_num |-> U32(FirstShown + k - 1),
                  marked |-> (FirstShown + k - 1 = LineL),
                  text |-> args.lines[FirstShown + k - 1]]]

\* the Rip of the event thread at a hardware breakpoint stop: the address in
\* the armed slot whose breakpoint the thread ran into
BreakpointRip == DrOf(ctx, os_event.slot)

\* the debug loop has just printed "Breakpoint i hit" for a breakpoint
\* exception and is at the prompt before the first command
ReportedHit ==
    /\ ExceptionStop("breakpoint")
    /\ last_cmd = NoCmd
    /\ bp_index \in {Some(i) : i \in 0..3}

\* C29: whenever the debug loop reports "Breakpoint i hit", after any
\* sequence of bp and bc commands and resumes, a live breakpoint with id i
\* exists and its address is the Rip of the event thread.
C29_ReportedHitIsLiveBreakpoint ==
    ReportedHit =>
        \E k \in 1..Len(breakpoints) :
            /\ breakpoints[k].id = bp_index.val
            /\ breakpoints[k].addr = BreakpointRip

\* ------------------------------------------------------------ the `k` command

\* println!("{:02X} 0x{:016X} {}", frame_number, context.Rsp, sym), or with
\* 0x{:X} of context.Rip when the address has no name
FrameLine(frame_number, context, ml) ==
    LET sym == resolve_address_to_name(context.Rip, ml)
    IN [frame_number |-> frame_number,
        Rsp |-> Rsp(context),
        site |-> IF sym.some THEN sym.val ELSE "0x" \o FormatUpperHex(context.Rip)]

\* the `loop` of CommandExpr::StackWalk: print the frame, unwind, and go on
\* with the unwound context on Ok(Some(..)); any other value breaks
RECURSIVE StackWalkLoop(_, _, _, _)
StackWalkLoop(ml, context, memory_source, frames) ==
    CHOOSE out \in
        {IF unwound.panicked THEN unwound
         ELSE IF unwound.val.ok /\ unwound.val.val.some
         THEN StackWalkLoop(ml, unwound.val.val.val, memory_source,
                            Append(frames, FrameLine(Len(frames), context, ml)))
         ELSE Returned(Append(frames, FrameLine(Len(frames), context, ml))) :
            unwound \in {unwind_context(ml, context, memory_source)}} :
        TRUE

\* CommandExpr::StackWalk(_): the lines printed, or the panic
StackWalk(ml, context, memory_source) == StackWalkLoop(ml, context, memory_source, <<>>)

\* The `k` command alone. The modules of the unwinder with a name and one
\* export at the start of the function.
StackWalkModules ==
    {[name |-> "hello.dll", address |-> m.address, size |-> m.size,
      exports |-> <<Export(Some("f"), 1, RVA(102))>>, pdb |-> None,
      exception |-> m.exception, functions |-> m.functions, readable |-> m.readable] :
        m \in UnwindModules}

\* a stack of return addresses: the words below `cut` return into the module,
\* the words from `cut` on hold `last`
WalkBytes(cut, inner, last) ==
    [a \in StackAddrs |->
        IF a % 8 # 0 THEN 0 ELSE IF a < cut THEN inner ELSE last]

\* the stack is readable as a whole, or up to `cut` only
StackWalkArgs ==
    {[fn |-> "k",
      context |-> [Rip |-> rip, gpr |-> [EntryGpr EXCEPT ![REG_RSP] = 8]],
      source |-> [readable |-> IF whole THEN StackAddrs
                               ELSE {a \in StackAddrs : a < cut},
                  bytes |-> WalkBytes(cut, inner, last)]] :
        rip \in {100, 104, 106}, inner \in {100, 104}, last \in {0, 204},
        cut \in {8 * k : k \in 1..(2 * MaxSteps)}, whole \in BOOLEAN}

InitStackWalk ==
    /\ pc = "repl"
    /\ args \in StackWalkArgs
    /\ module_list \in {<<m>> : m \in StackWalkModules}
    /\ result = NotCalled
    /\ breakpoints = <<>>
    /\ thread_list = <<>>
    /\ os_ctx = [t \in Tids |-> ZeroContext]
    /\ written = {}
    /\ ctx = ZeroContext
    /\ bp_index = NotCalled
    /\ expect_step_exception = FALSE
    /\ os_event = [code |-> "none"]
    /\ debug_event = [kind |-> "none"]
    /\ continue_status = DBG_CONTINUE
    /\ is_exit = FALSE
    /\ os_threads = {}
    /\ announced = {}
    /\ last_cmd = NoCmd
    /\ panic_msg = "none"
    /\ nevents = 0
    /\ ncmds = 0
    /\ os_images = {}
    /\ last_continue = NotCalled

CmdStackWalk ==
    /\ pc = "repl"
    /\ last_cmd = NoCmd
    /\ args.fn = "k"
    /\ result' = StackWalk(module_list, args.context, args.source)
    /\ panic_msg' = IF result'.panicked THEN result'.msg ELSE panic_msg
    /\ pc' = IF result'.panicked THEN "panic" ELSE "repl"
    /\ last_cmd' = Cmd("k", TRUE)
    /\ UNCHANGED <<breakpoints, thread_list, module_list, expect_step_exception,
                   os_event, debug_event, ctx, continue_status, is_exit, bp_index,
                   os_threads, os_ctx, announced, written,
                   nevents, ncmds, os_images, last_continue, args>>

NextStackWalk == CmdStackWalk

SpecStackWalk == InitStackWalk /\ [][NextStackWalk]_vars

Walked == args.fn = "k" /\ last_cmd = Cmd("k", TRUE)

\* C30: every `k` stack walk terminates and returns to the REPL prompt: each
\* successful unwind step yields a caller Rsp at least 8 greater than the
\* callee Rsp, and a failed read of the return-address slot or of any unwind
\* data ends the walk without terminating the session.
C30_StackWalkReturnsToPrompt ==
    Walked =>
        /\ pc = "repl"
        /\ ~result.panicked
        /\ \A k \in 1..(Len(result.val) - 1) :
               result.val[k + 1].Rsp >= result.val[k].Rsp + 8

\* ---------------------------------------------------------- the `t` command

\* Stepping with breakpoints set: the stops of the initial thread and of a
\* thread created later, each left with t after any bp and bc commands.
NextStep ==
    \/ EvCreateProcess
    \/ EvCreateThread
    \/ EvStepException
    \/ CmdSetBreakpoint(MaxCmds)
    \/ CmdClearBreakpoint(MaxCmds)
    \/ CmdStepInto

SpecStep == Init /\ [][NextStep]_vars

HasTF(c) == TRAP_FLAG_BIT \in c.EFlags

\* the REPL is left with `t` and the event is continued
StepResumes == CmdStepInto /\ pc' = "wait"

\* C31: when the event thread is resumed after a `t` command, its context
\* has EFlags.TF = 1 together with the debug-register values that
\* apply_breakpoints wrote: every list position is programmed in its slot
\* and the resume flag is set when apply_breakpoints wrote the thread, and
\* whatever else `t` wrote from the context of the event is still there.
C31_StepKeepsTrapFlagAndBreakpoints ==
    [][StepResumes =>
         LET t == os_event.thread_id
             c == os_ctx'[t]
         IN /\ HasTF(c)
            /\ c.Dr6 = ctx.Dr6
            /\ c.EFlags \ {EFLAG_RF} = (ctx.EFlags \cup {TRAP_FLAG_BIT}) \ {EFLAG_RF}
            /\ t \in written' =>
                  /\ HasRF(c)
                  /\ \A idx \in 0..(Len(breakpoints) - 1) :
                        Programmed(c, breakpoints, idx)]_vars

\* C31 witness: a thread that apply_breakpoints wrote resumes after `t` with
\* the trap flag, the resume flag and two breakpoints in its slots.
C31_Witness ==
    /\ pc = "wait"
    /\ expect_step_exception
    /\ Len(breakpoints) >= 2
    /\ \E t \in written :
         /\ HasTF(os_ctx[t]) /\ HasRF(os_ctx[t])
         /\ Programmed(os_ctx[t], breakpoints, 0)
         /\ Programmed(os_ctx[t], breakpoints, 1)

\* ------------------------------------------------------------------ the REPL

\* the closure eval_expr of main_debugger_loop: Some(val), or None after
\* "Could not evaluate expression"; a panic of the evaluation passes through
eval_expr(expr, register_context, ml, overflow_checks) ==
    CHOOSE out \in
        {IF r.panicked THEN r
         ELSE IF r.val.ok THEN Returned(Some(r.val.val))
         ELSE Returned(None) :
            r \in {evaluate_expression(expr, register_context, ml, overflow_checks)}} :
        TRUE

\* a u64 as an address of the modelled memory: the addresses from 2^16 on
\* are mapped nowhere, and LimbBase stands for them
AddressOf(v) == IF v[2] = 0 /\ v[3] = 0 /\ v[4] = 0 THEN v[1] ELSE LimbBase

\* the command ran to its end and its expression evaluated
Completed(r) == ~r.panicked /\ r.val.evaluated

\* what a command printed, and whether its expression evaluated
Printed(lines) == Returned([evaluated |-> TRUE, printed |-> lines])

NotEvaluated == Returned([evaluated |-> FALSE, printed |-> <<>>])

\* registers::display_all(&ctx.context)
display_all(context) ==
    [k \in 1..Len(RegisterOrder) |-> <<RegisterOrder[k], context[RegisterOrder[k]]>>]

\* registers::display_named(&ctx.context, &reg)
display_named(context, reg_name) ==
    IF get_register(context, reg_name).ok
    THEN <<<<to_lowercase(reg_name), get_register(context, reg_name).val>>>>
    ELSE <<"Unrecognized register name: " \o reg_name>>

\* CommandExpr::DisplayBytes once eval_expr has returned `address`
DisplayBytes(address, memory_source) ==
    IF address.panicked THEN address
    ELSE IF ~address.val.some THEN NotEvaluated
    ELSE Printed(read_raw_memory(memory_source, AddressOf(address.val.val), 16))

\* CommandExpr::ListNearest once eval_expr has returned `val`
ListNearest(val, ml) ==
    IF val.panicked THEN val
    ELSE IF ~val.val.some THEN NotEvaluated
    ELSE IF resolve_address_to_name(AddressOf(val.val.val), ml).some
    THEN Printed(<<resolve_address_to_name(AddressOf(val.val.val), ml).val>>)
    ELSE Printed(<<"No symbol found">>)

\* the page unassemble reads at the address
PageSize == 4096

\* pub fn unassemble(memory_source, va, lines): the bytes handed to the
\* decoder, whose instructions are printed, or the failure printed
unassemble(memory_source, va) ==
    IF ~read_memory(memory_source, va, PageSize).ok
    THEN <<"Failed to read memory">>
    ELSE LET IsSome(b) == b.some
         IN SelectSeq(read_memory(memory_source, va, PageSize).val, IsSome)

\* CommandExpr::Unassemble once eval_expr has returned `addr`
Unassemble(addr, memory_source) ==
    IF addr.panicked THEN addr
    ELSE IF ~addr.val.some THEN NotEvaluated
    ELSE Printed(unassemble(memory_source, AddressOf(addr.val.val)))

\* BreakpointManager::list_breakpoints(&self, process)
list_breakpoints(bps, ml) ==
    [k \in 1..Len(bps) |->
        [id |-> bps[k].id, addr |-> bps[k].addr,
         sym |-> resolve_address_to_name(bps[k].addr, ml)]]

\* the end of a command that neither leaves the REPL nor touches the
\* debuggee: the loop reads the next command, unless the command panicked
NextPrompt(name) ==
    /\ panic_msg' = IF result'.panicked THEN result'.msg ELSE panic_msg
    /\ pc' = IF result'.panicked THEN "panic" ELSE "repl"
    /\ last_cmd' = Cmd(name, Completed(result'))
    /\ UNCHANGED <<breakpoints, thread_list, module_list, expect_step_exception,
                   os_event, debug_event, ctx, continue_status, is_exit, bp_index,
                   os_threads, os_ctx, announced, written,
                   nevents, ncmds, os_images, last_continue, args>>

\* CommandExpr::DisplayRegisters
CmdDisplayRegisters ==
    /\ pc = "repl" /\ last_cmd = NoCmd /\ args.fn = "r"
    /\ result' = Printed(display_all(args.register_context))
    /\ NextPrompt("r")

\* CommandExpr::DisplaySpecificRegister
CmdDisplaySpecificRegister ==
    /\ pc = "repl" /\ last_cmd = NoCmd /\ args.fn = "r reg"
    /\ result' = Printed(display_named(args.register_context, args.reg))
    /\ NextPrompt("r")

\* CommandExpr::DisplayBytes
CmdDisplayBytes ==
    /\ pc = "repl" /\ last_cmd = NoCmd /\ args.fn = "db"
    /\ result' = DisplayBytes(eval_expr(args.expr, args.register_context, module_list,
                                        args.overflow_checks),
                              args.source)
    /\ NextPrompt("db")

\* CommandExpr::ListNearest
CmdListNearest ==
    /\ pc = "repl" /\ last_cmd = NoCmd /\ args.fn = "ln"
    /\ result' = ListNearest(eval_expr(args.expr, args.register_context, module_list,
                                       args.overflow_checks),
                             module_list)
    /\ NextPrompt("ln")

\* CommandExpr::Unassemble; the address the next `u` goes on from is a local
\* of the loop body that no other command reads
CmdUnassemble ==
    /\ pc = "repl" /\ last_cmd = NoCmd /\ args.fn = "u"
    /\ result' = Unassemble(eval_expr(args.expr, args.register_context, module_list,
                                      args.overflow_checks),
                            args.source)
    /\ NextPrompt("u")

\* CommandExpr::ListBreakpoints
CmdListBreakpoints ==
    /\ pc = "repl" /\ last_cmd = NoCmd /\ args.fn = "bl"
    /\ result' = Printed(list_breakpoints(breakpoints, module_list))
    /\ NextPrompt("bl")

\* The REPL of one stop: the debuggee has raised an exception on its initial
\* thread, breakpoints are set, and the user enters one of the commands that
\* display, and then g, t or q.
ReplBreakpointLists ==
    {<<>>, <<[addr |-> 1, id |-> 0]>>, <<[addr |-> 1, id |-> 1], [addr |-> 2, id |-> 3]>>}

ReplExprs ==
    EvalSymbols \cup EvalOperands \cup {Add(Number(U64Max), y) : y \in EvalOperands}

ReplSources ==
    {[readable |-> rd, bytes |-> WalkBytes(8, 104, 204)] : rd \in {StackAddrs, {}}}

ReplArgs ==
    {[fn |-> "r", register_context |-> EvalRegisters], [fn |-> "bl"]}
    \cup {[fn |-> "r reg", reg |-> reg, register_context |-> EvalRegisters] :
            reg \in {"rip", "RAX", "xyz"}}
    \cup {[fn |-> fn, expr |-> e, register_context |-> EvalRegisters,
           overflow_checks |-> oc, source |-> s] :
            fn \in {"db", "ln", "u"}, e \in ReplExprs, oc \in BOOLEAN, s \in ReplSources}
    \cup {[fn |-> "evaluate_expression", expr |-> e, register_context |-> EvalRegisters,
           overflow_checks |-> oc] : e \in ReplExprs, oc \in BOOLEAN}
    \cup {[fn |-> "lsa", line_number |-> U32(l), lines |-> f, overflow_checks |-> oc] :
            l \in 1..3, f \in SourceFiles, oc \in BOOLEAN}

ReplStop ==
    [code |-> "EXCEPTION_DEBUG_EVENT", thread_id |-> MainTid,
     exception_code |-> EXCEPTION_ACCESS_VIOLATION, cause |-> "debuggee"]

InitRepl ==
    /\ pc = "repl"
    /\ \/ /\ args \in ReplArgs
          /\ module_list = EvalModules
       \/ /\ args \in {a \in StackWalkArgs : a.context.Rip = 104}
          /\ module_list \in {<<m>> : m \in {w \in StackWalkModules :
                                  \A k \in 1..Len(w.functions) :
                                      /\ w.functions[k].UnwindInfo.version_flags = 1
                                      /\ w.functions[k].UnwindInfo.frame_register_offset = 0}}
    /\ breakpoints \in ReplBreakpointLists
    /\ os_ctx \in {[t \in Tids |-> ZeroContext], [t \in Tids |-> UsedContext]}
    /\ ctx = os_ctx[MainTid]
    /\ os_event = ReplStop
    /\ debug_event = wait_for_next_debug_event(ReplStop)
    /\ continue_status = DBG_EXCEPTION_NOT_HANDLED
    /\ is_exit = FALSE
    /\ bp_index = None
    /\ thread_list = <<MainTid>>
    /\ os_threads = {MainTid}
    /\ announced = {MainTid}
    /\ expect_step_exception = FALSE
    /\ written = {}
    /\ last_cmd = NoCmd
    /\ panic_msg = "none"
    /\ nevents = 2
    /\ ncmds = 0
    /\ os_images = {[base |-> 100, size |-> 2, exe |-> TRUE]}
    /\ last_continue = NotCalled
    /\ result = NotCalled

\* the commands that display
DisplayCommand ==
    \/ CmdDisplayRegisters
    \/ CmdDisplaySpecificRegister
    \/ CmdStackWalk
    \/ CmdDisplayBytes
    \/ CmdEvaluate
    \/ CmdListNearest
    \/ CmdUnassemble
    \/ CmdListSource
    \/ CmdListBreakpoints

NextRepl == DisplayCommand \/ CmdGo \/ CmdStepInto \/ CmdQuit

SpecRepl == InitRepl /\ [][NextRepl]_vars

\* C32: the commands r, k, db, ?, ln, u, lsa and bl neither resume the
\* debuggee nor change any thread's CONTEXT, the breakpoint list, the thread
\* set or the module list; only g and t leave the REPL and lead to
\* ContinueDebugEvent, and q ends the session without calling
\* ContinueDebugEvent.
C32_DisplayCommandsChangeNothing ==
    [][/\ DisplayCommand =>
            /\ pc' \in {"repl", "panic"}
            /\ UNCHANGED <<os_ctx, ctx, breakpoints, thread_list, module_list,
                           os_threads, written, last_continue>>
       /\ last_continue' # last_continue => CmdGo \/ CmdStepInto
       /\ pc' = "wait" => CmdGo \/ CmdStepInto
       /\ CmdQuit => pc' = "quit" /\ UNCHANGED <<last_continue, os_ctx>>]_vars

\* C32 witness: a display command has run at a stop with breakpoints set
\* and then q has ended the session with no event continued.
C32_Witness ==
    /\ pc = "quit"
    /\ breakpoints # <<>>
    /\ result # NotCalled
    /\ last_continue = NotCalled

\* ------------------------------------------------- bp and bc with expressions

\* `id as u32`: the low 32 bits of a u64
as_u32(v) == <<v[1], v[2]>>

\* a u32 as the number clear_breakpoint compares with the ids, which are
\* below 4: LimbBase stands for every value from 2^16 on
IdOf(w) == IF w[2] = 0 THEN w[1] ELSE LimbBase

\* CommandExpr::SetBreakpoint once eval_expr has returned `addr`: the list,
\* or the panic of the evaluation or of add_breakpoint
SetBreakpoint(addr, bps) ==
    IF addr.panicked THEN addr
    ELSE IF ~addr.val.some THEN Returned(bps)
    ELSE add_breakpoint(bps, addr.val.val)

\* CommandExpr::ClearBreakpoint once eval_expr has returned `id`
ClearBreakpoint(id, bps) ==
    IF id.panicked THEN id
    ELSE IF ~id.val.some THEN Returned(bps)
    ELSE Returned(clear_breakpoint(bps, IdOf(as_u32(id.val.val))))

\* The bp and bc commands alone at a stop, their expression evaluated by
\* evaluate_expression, with none, one or four breakpoints live.
BreakpointExprLists ==
    {<<>>,
     <<[addr |-> U64(1), id |-> 0]>>,
     <<[addr |-> U64(7), id |-> 1], [addr |-> U64(2), id |-> 3]>>,
     [k \in 1..MaxBreakpoints |-> [addr |-> U64(k), id |-> k - 1]]}

BreakpointExprs ==
    ReplExprs
    \cup {Number(U64(n)) : n \in 0..MaxBreakpoints}
    \cup {Number(<<n, 0, 1, 0>>) : n \in 0..1}
    \cup {Number(<<3, 1, 0, 0>>)}

InitBreakpointExpr ==
    /\ pc = "repl"
    /\ args \in {[fn |-> fn, expr |-> e, register_context |-> EvalRegisters,
                  overflow_checks |-> oc] :
                    fn \in {"bp", "bc"}, e \in BreakpointExprs, oc \in BOOLEAN}
    /\ module_list = EvalModules
    /\ breakpoints \in BreakpointExprLists
    /\ os_ctx = [t \in Tids |-> ZeroContext]
    /\ ctx = ZeroContext
    /\ os_event = ReplStop
    /\ debug_event = wait_for_next_debug_event(ReplStop)
    /\ continue_status = DBG_EXCEPTION_NOT_HANDLED
    /\ is_exit = FALSE
    /\ bp_index = None
    /\ thread_list = <<MainTid>>
    /\ os_threads = {MainTid}
    /\ announced = {MainTid}
    /\ expect_step_exception = FALSE
    /\ written = {}
    /\ last_cmd = NoCmd
    /\ panic_msg = "none"
    /\ nevents = 2
    /\ ncmds = 0
    /\ os_images = {[base |-> 100, size |-> 2, exe |-> TRUE]}
    /\ last_continue = NotCalled
    /\ result = NotCalled

\* the end of bp and bc: result holds the list the command leaves, or the
\* panic
BreakpointsChanged(name) ==
    /\ breakpoints' = IF result'.panicked THEN breakpoints ELSE result'.val
    /\ panic_msg' = IF result'.panicked THEN result'.msg ELSE panic_msg
    /\ pc' = IF result'.panicked THEN "panic" ELSE "repl"
    /\ last_cmd' = Cmd(name, ~result'.panicked)
    /\ UNCHANGED <<thread_list, module_list, expect_step_exception,
                   os_event, debug_event, ctx, continue_status, is_exit, bp_index,
                   os_threads, os_ctx, announced, written,
                   nevents, ncmds, os_images, last_continue, args>>

\* CommandExpr::SetBreakpoint with its expression
CmdSetBreakpointExpr ==
    /\ pc = "repl" /\ last_cmd = NoCmd /\ args.fn = "bp"
    /\ result' = SetBreakpoint(eval_expr(args.expr, args.register_context, module_list,
                                         args.overflow_checks),
                               breakpoints)
    /\ BreakpointsChanged("bp")

\* CommandExpr::ClearBreakpoint with its expression
CmdClearBreakpointExpr ==
    /\ pc = "repl" /\ last_cmd = NoCmd /\ args.fn = "bc"
    /\ result' = ClearBreakpoint(eval_expr(args.expr, args.register_context, module_list,
                                           args.overflow_checks),
                                 breakpoints)
    /\ BreakpointsChanged("bc")

NextBreakpointExpr == CmdSetBreakpointExpr \/ CmdClearBreakpointExpr

SpecBreakpointExpr == InitBreakpointExpr /\ [][NextBreakpointExpr]_vars

\* the expression of the command does not evaluate: the evaluation returns
\* an error or traps
FailsToEvaluate ==
    \E r \in {evaluate_expression(args.expr, args.register_context, module_list,
                                  args.overflow_checks)} :
        r.panicked \/ ~r.val.ok

\* C33: a bp or bc command whose expression fails to evaluate leaves the
\* breakpoint list unchanged, does not resume the debuggee, and the REPL
\* prompts again.
C33_FailedExpressionChangesNothing ==
    [][(NextBreakpointExpr /\ FailsToEvaluate) =>
          /\ pc' = "repl"
          /\ UNCHANGED <<breakpoints, last_continue, os_ctx>>]_vars

\* the list without its element at position k
Without(bps, k) == SubSeq(bps, 1, k - 1) \o SubSeq(bps, k + 1, Len(bps))

\* `out` is `bps` with exactly the breakpoint of that id removed, every
\* other breakpoint with its id and address and in its place; `bps` itself
\* when no breakpoint has the id
ClearedOf(bps, id, out) ==
    IF \E k \in 1..Len(bps) : bps[k].id = id
    THEN \E k \in 1..Len(bps) : bps[k].id = id /\ out = Without(bps, k)
    ELSE out = bps

\* a bc command whose expression evaluated has run
ClearStep == pc = "repl" /\ ncmds' = ncmds + 1 /\ last_cmd' = Cmd("bc", TRUE)

\* C34: clear_breakpoint(id) removes exactly the live breakpoint with that
\* id and leaves the id and address of every other breakpoint unchanged;
\* clearing an id that is not live changes nothing. Stated for every list
\* that bp and bc commands can leave and every id, and for every bc step.
C34_ClearRemovesExactlyThatId ==
    /\ [](\A id \in 0..MaxBreakpoints :
             ClearedOf(breakpoints, id, clear_breakpoint(breakpoints, id)))
    /\ [][ClearStep =>
             \E id \in 0..MaxBreakpoints : ClearedOf(breakpoints, id, breakpoints')]_vars

\* C34 witness: bc has cleared the breakpoint with id 0 of three, and the
\* breakpoints with ids 1 and 2 are still live.
C34_Witness ==
    /\ last_cmd = Cmd("bc", TRUE)
    /\ {breakpoints[k].id : k \in 1..Len(breakpoints)} = {1, 2}

\* the value the expression of the command evaluates to, when it does
EvaluatesTo(v) ==
    evaluate_expression(args.expr, args.register_context, module_list,
                        args.overflow_checks) = Returned(Ok(v))

\* the values that the expressions of the commands can take
ExprValues ==
    {r.val.val : r \in {q \in {evaluate_expression(e, EvalRegisters, EvalModules, FALSE) :
                                  e \in BreakpointExprs} : q.val.ok}}

\* C35: `bc <expr>` removes a breakpoint only when the evaluated 64-bit
\* value equals the id of a live breakpoint, and then that breakpoint; every
\* other value, the values from 2^32 on included, leaves the breakpoint list
\* unchanged.
C35_ClearOnlyOnLiveId ==
    [][CmdClearBreakpointExpr =>
          \A v \in ExprValues :
              EvaluatesTo(v) =>
                  IF \E k \in 1..Len(breakpoints) : U64(breakpoints[k].id) = v
                  THEN \E k \in 1..Len(breakpoints) :
                          /\ U64(breakpoints[k].id) = v
                          /\ breakpoints' = Without(breakpoints, k)
                  ELSE breakpoints' = breakpoints]_vars

\* set_bits alone, called on 32-bit and 64-bit values: clear, full and
\* alternating ones, every start bit, the bit counts up to MaxBitCount that
\* end at the start bit, and every set_val of bit_count bits
MaxBitCount == 2

SetBitsArgs ==
    UNION {[fn : {"set_bits"}, w : {w}, val : {{}, Bits(w), {i \in Bits(w) : i % 2 = 0}},
            set_val : 0..(2 ^ MaxBitCount - 1), start_bit : Bits(w),
            bit_count : 1..MaxBitCount] :
           w \in {32, 64}}

InitSetBits ==
    /\ pc = "call_set_bits"
    /\ args \in {a \in SetBitsArgs : /\ a.bit_count <= a.start_bit + 1
                                     /\ a.set_val < 2 ^ a.bit_count}
    /\ breakpoints = <<>>
    /\ thread_list = <<>>
    /\ os_ctx = [t \in Tids |-> ZeroContext]
    /\ written = {}
    /\ result = NotCalled
    /\ ctx = ZeroContext
    /\ bp_index = NotCalled
    /\ module_list = <<>>
    /\ expect_step_exception = FALSE
    /\ os_event = [code |-> "none"]
    /\ debug_event = [kind |-> "none"]
    /\ continue_status = DBG_CONTINUE
    /\ is_exit = FALSE
    /\ os_threads = {}
    /\ announced = {}
    /\ last_cmd = NoCmd
    /\ panic_msg = "none"
    /\ nevents = 0
    /\ ncmds = 0
    /\ os_images = {}
    /\ last_continue = NotCalled

CallSetBits ==
    /\ pc = "call_set_bits"
    /\ result' = Returned(set_bits(args.val, args.set_val, args.start_bit,
                                   args.bit_count, args.w))
    /\ pc' = "set_bits_called"
    /\ UNCHANGED <<breakpoints, thread_list, module_list, expect_step_exception,
                   os_event, debug_event, ctx, continue_status, is_exit, bp_index,
                   os_threads, os_ctx, announced, written, last_cmd, panic_msg,
                   nevents, ncmds, os_images, last_continue, args>>

InitApplyBits == InitApply \/ InitSetBits

NextApplyBits == CallApplyBreakpoints \/ CallSetBits

SpecApplyBits == InitApplyBits /\ [][NextApplyBits]_vars

\* the bits of DR7 that hold the LE, RW and LEN fields of the slots 0-3
Dr7BreakpointFields ==
    UNION {{DR7_LE_BIT[k], DR7_RW_BIT[k], DR7_RW_BIT[k] - 1,
            DR7_LEN_BIT[k], DR7_LEN_BIT[k] - 1} : k \in 1..4}

\* the bit_count bits that end at start_bit
FieldBits(start_bit, bit_count) == (start_bit + 1 - bit_count)..start_bit

\* C36: apply_breakpoints changes, in the contexts it writes back, only
\* Dr0-Dr3, the LE, RW and LEN fields of DR7 for the slots 0-3, and EFlags.RF
\* of the resuming thread; the GE bits and every other bit of DR7, DR6 and
\* the other bits of EFlags are written back as read. set_bits changes
\* exactly the bit_count bits ending at start_bit, in 32-bit and 64-bit
\* values, and leaves set_val there.
C36_ApplyChangesOnlyBreakpointFields ==
    /\ pc = "called" =>
          \A t \in Tids :
              /\ os_ctx[t].Dr6 = args.octx[t].Dr6
              /\ os_ctx[t].Dr7 \ Dr7BreakpointFields = args.octx[t].Dr7 \ Dr7BreakpointFields
              /\ os_ctx[t].EFlags \ {EFLAG_RF} = args.octx[t].EFlags \ {EFLAG_RF}
              /\ t # args.resume_thread_id => os_ctx[t].EFlags = args.octx[t].EFlags
              /\ \A k \in 1..4 : DR7_GE_BIT[k] \in os_ctx[t].Dr7 <=> DR7_GE_BIT[k] \in args.octx[t].Dr7
    /\ pc = "set_bits_called" =>
          LET field == FieldBits(args.start_bit, args.bit_count)
          IN /\ result.val \ field = args.val \ field
             /\ result.val \cap field = {i + args.start_bit + 1 - args.bit_count :
                                            i \in OfNat(args.set_val)}
             /\ result.val \subseteq Bits(args.w)

\* C36 witness: the call has programmed a breakpoint into a thread whose
\* context had every bit of DR7 set, the GE bits among them, and hit bits in
\* DR6, and has changed DR7.
C36_Witness ==
    /\ pc = "called"
    /\ breakpoints # <<>>
    /\ \E t \in written :
         /\ args.octx[t] = FullContext
         /\ t = args.resume_thread_id
         /\ os_ctx[t].Dr7 # args.octx[t].Dr7
         /\ os_ctx[t].Dr0 = breakpoints[1].addr

\* find_runtime_function alone, and unwind_context in a module whose function
\* table has several entries. The tables are those of up to MaxFunctions
\* functions in the RVAs 0..MaxRva: sorted by BeginAddress, every function
\* non-empty, no two overlapping. Every function allocates 8 bytes of stack
\* in its first instruction.
MaxFunctions == 3
MaxRva == 6

FunctionInfo == [version_flags |-> 1, size_of_prolog |-> 0, count_of_codes |-> 1,
                 frame_register_offset |-> 0,
                 codes |-> <<Slot(0, UWOP_ALLOC_SMALL, 0)>>]

RECURSIVE TablesFrom(_, _)
TablesFrom(n, from) ==
    IF n = 0 THEN {<<>>}
    ELSE UNION {UNION {{<<[BeginAddress |-> b, EndAddress |-> e,
                            UnwindInfo |-> FunctionInfo]>> \o rest :
                              rest \in TablesFrom(n - 1, e)} :
                           e \in (b + 1)..MaxRva} :
                   b \in from..(MaxRva - 1)}

FunctionTables == UNION {TablesFrom(n, 0) : n \in 0..MaxFunctions}

FunctionModules ==
    {[address |-> 100, size |-> MaxRva + 1,
      exception |-> [VirtualAddress |-> 14, Size |-> 12 * Len(fl)],
      functions |-> fl,
      readable |-> [functions |-> TRUE, info |-> TRUE, codes |-> TRUE]] :
        fl \in FunctionTables \ {<<>>}}

FunctionArgs ==
    {[fn |-> "find_runtime_function", addr |-> addr, function_list |-> fl] :
        addr \in 0..MaxRva, fl \in FunctionTables}

FunctionContextArgs ==
    {[fn |-> "unwind_context",
      context |-> [Rip |-> 100 + rva, gpr |-> [EntryGpr EXCEPT ![REG_RSP] = 8]],
      source |-> [readable |-> StackAddrs, bytes |-> WriteWord(EntryBytes, 8, ret)]] :
        rva \in 0..MaxRva, ret \in {205, 0}}

InitFunctions ==
    /\ pc = "call"
    /\ \/ args \in FunctionArgs /\ module_list = <<>>
       \/ args \in FunctionContextArgs /\ module_list \in {<<m>> : m \in FunctionModules}
    /\ result = NotCalled
    /\ breakpoints = <<>>
    /\ thread_list = <<>>
    /\ os_ctx = [t \in Tids |-> ZeroContext]
    /\ written = {}
    /\ ctx = ZeroContext
    /\ bp_index = NotCalled
    /\ expect_step_exception = FALSE
    /\ os_event = [code |-> "none"]
    /\ debug_event = [kind |-> "none"]
    /\ continue_status = DBG_CONTINUE
    /\ is_exit = FALSE
    /\ os_threads = {}
    /\ announced = {}
    /\ last_cmd = NoCmd
    /\ panic_msg = "none"
    /\ nevents = 0
    /\ ncmds = 0
    /\ os_images = {}
    /\ last_continue = NotCalled

CallFindRuntimeFunction ==
    /\ pc = "call"
    /\ args.fn = "find_runtime_function"
    /\ result' = Returned(find_runtime_function(args.addr, args.function_list))
    /\ pc' = "called"
    /\ UNCHANGED <<breakpoints, thread_list, module_list, expect_step_exception,
                   os_event, debug_event, ctx, continue_status, is_exit, bp_index,
                   os_threads, os_ctx, announced, written, last_cmd, panic_msg,
                   nevents, ncmds, os_images, last_continue, args>>

NextFunctions == CallFindRuntimeFunction \/ CallUnwindContext

SpecFunctions == InitFunctions /\ [][NextFunctions]_vars

\* the entries of the table that a linear scan finds for the RVA
ScanHits(rva, function_list) ==
    {k \in 1..Len(function_list) :
        function_list[k].BeginAddress <= rva /\ rva < function_list[k].EndAddress}

\* C37: on a table sorted by BeginAddress of non-empty functions that do not
\* overlap, find_runtime_function returns the entry with
\* BeginAddress <= rva < EndAddress that a linear scan finds, or none when
\* there is no such entry; and when there is none, unwind_context unwinds the
\* frame as a leaf function: the return address is read at [Rsp] and Rsp
\* moves up by 8, with no unwind op applied.
C37_FindEqualsLinearScan ==
    /\ (pc = "called" /\ args.fn = "find_runtime_function") =>
          LET hits == ScanHits(args.addr, args.function_list)
          IN IF hits = {} THEN result = Returned(None)
             ELSE \A k \in hits : result = Returned(Some(args.function_list[k]))
    /\ (pc = "called" /\ args.fn = "unwind_context"
          /\ ScanHits(args.context.Rip - module_list[1].address,
                      module_list[1].functions) = {}) =>
          result = Returned(Ok(Some(
              [args.context EXCEPT
                  !.Rip = FromLeBytes([k \in 1..8 |->
                              args.source.bytes[Rsp(args.context) + k - 1]]),
                  !.gpr[REG_RSP] = @ + 8])))

\* C37 witness: unwind_context has unwound a frame as a leaf whose Rip lies
\* in the gap between two functions of the table.
C37_Witness ==
    /\ pc = "called"
    /\ args.fn = "unwind_context"
    /\ \E i, j \in 1..Len(module_list[1].functions) :
         /\ module_list[1].functions[i].EndAddress <= args.context.Rip - 100
         /\ args.context.Rip - 100 < module_list[1].functions[j].BeginAddress
    /\ ScanHits(args.context.Rip - 100, module_list[1].functions) = {}
    /\ result = Returned(Ok(Some([args.context EXCEPT !.Rip = 205, !.gpr[REG_RSP] = 16])))

\* get_unwind_ops alone, called on every sequence of up to MaxSlots slots
\* drawn from: each op code of the decoder with op_info 0 and 1,
\* ALLOC_LARGE with op_info 2, PUSH_MACHFRAME, an op code that is not
\* assigned, and the operand values 0 and 0x7fff
MaxSlots == 3

UnwindSlotValues ==
    {Slot(2, op, info) :
        op \in {UWOP_PUSH_NONVOL, UWOP_ALLOC_LARGE, UWOP_ALLOC_SMALL, UWOP_SET_FPREG,
                UWOP_SAVE_NONVOL, UWOP_SAVE_NONVOL_FAR, UWOP_SAVE_XMM128,
                UWOP_SAVE_XMM128_FAR},
        info \in 0..1}
    \cup {Slot(2, UWOP_ALLOC_LARGE, 2), Slot(2, UWOP_PUSH_MACHFRAME, 0), Slot(2, 7, 0),
          0, 32767}

UnwindOpsArgs ==
    {[fn |-> "get_unwind_ops", code_slots |-> s] :
        s \in UNION {[1..n -> UnwindSlotValues] : n \in 0..MaxSlots}}

InitUnwindOps ==
    /\ pc = "call"
    /\ args \in UnwindOpsArgs
    /\ module_list = <<>>
    /\ result = NotCalled
    /\ breakpoints = <<>>
    /\ thread_list = <<>>
    /\ os_ctx = [t \in Tids |-> ZeroContext]
    /\ written = {}
    /\ ctx = ZeroContext
    /\ bp_index = NotCalled
    /\ expect_step_exception = FALSE
    /\ os_event = [code |-> "none"]
    /\ debug_event = [kind |-> "none"]
    /\ continue_status = DBG_CONTINUE
    /\ is_exit = FALSE
    /\ os_threads = {}
    /\ announced = {}
    /\ last_cmd = NoCmd
    /\ panic_msg = "none"
    /\ nevents = 0
    /\ ncmds = 0
    /\ os_images = {}
    /\ last_continue = NotCalled

CallGetUnwindOps ==
    /\ pc = "call"
    /\ args.fn = "get_unwind_ops"
    /\ result' = Returned(get_unwind_ops(args.code_slots))
    /\ pc' = "called"
    /\ UNCHANGED <<breakpoints, thread_list, module_list, expect_step_exception,
                   os_event, debug_event, ctx, continue_status, is_exit, bp_index,
                   os_threads, os_ctx, announced, written, last_cmd, panic_msg,
                   nevents, ncmds, os_images, last_continue, args>>

NextUnwindOps == CallGetUnwindOps

SpecUnwindOps == InitUnwindOps /\ [][NextUnwindOps]_vars

\* the table of the ops: the slots an op takes, by its op code and op_info;
\* 0 for an op that the table does not list
TableSlots(slot) ==
    LET f == split_up_8_4_4(slot)
    IN IF f.unwind_op \in {UWOP_PUSH_NONVOL, UWOP_ALLOC_SMALL, UWOP_SET_FPREG} THEN 1
       ELSE IF f.unwind_op \in {UWOP_SAVE_NONVOL, UWOP_SAVE_XMM128} THEN 2
       ELSE IF f.unwind_op \in {UWOP_SAVE_NONVOL_FAR, UWOP_SAVE_XMM128_FAR} THEN 3
       ELSE IF f.unwind_op = UWOP_ALLOC_LARGE /\ f.op_info \in {0, 1} THEN 2 + f.op_info
       ELSE 0

\* the 32-bit value of the two slots at k and k + 1 (positions from 1)
Value32(slots, k) == slots[k] + 65536 * slots[k + 1]

\* the op of the table that the slots from position k on describe
TableOp(slots, k) ==
    LET f == split_up_8_4_4(slots[k])
    IN UnwindCode(f.code_offset,
          CASE f.unwind_op = UWOP_PUSH_NONVOL -> PushNonVolatile(f.op_info)
            [] f.unwind_op = UWOP_ALLOC_SMALL -> Alloc(8 * f.op_info + 8)
            [] f.unwind_op = UWOP_SET_FPREG -> SetFpreg
            [] f.unwind_op = UWOP_ALLOC_LARGE /\ f.op_info = 0 -> Alloc(slots[k + 1] * 8)
            [] f.unwind_op = UWOP_ALLOC_LARGE /\ f.op_info = 1 -> Alloc(Value32(slots, k + 1))
            [] f.unwind_op = UWOP_SAVE_NONVOL -> SaveNonVolatile(f.op_info, slots[k + 1])
            [] f.unwind_op = UWOP_SAVE_NONVOL_FAR ->
                   SaveNonVolatile(f.op_info, Value32(slots, k + 1))
            [] f.unwind_op = UWOP_SAVE_XMM128 -> SaveXmm128(f.op_info, slots[k + 1])
            [] f.unwind_op = UWOP_SAVE_XMM128_FAR ->
                   SaveXmm128(f.op_info, Value32(slots, k + 1)))

\* the slots from position k on read by the table: the ops in slot order,
\* "incomplete" when the operand slots of an op lie past the end, "unlisted"
\* at an op the table does not list
RECURSIVE TableOps(_, _)
TableOps(slots, k) ==
    IF k > Len(slots) THEN [kind |-> "ops", ops |-> <<>>]
    ELSE IF TableSlots(slots[k]) = 0 THEN [kind |-> "unlisted"]
    ELSE IF k + TableSlots(slots[k]) - 1 > Len(slots) THEN [kind |-> "incomplete"]
    ELSE CHOOSE out \in
             {IF rest.kind = "ops"
              THEN [kind |-> "ops", ops |-> <<TableOp(slots, k)>> \o rest.ops]
              ELSE rest :
                 rest \in {TableOps(slots, k + TableSlots(slots[k]))}} : TRUE

\* C38: get_unwind_ops decodes a slot sequence op by op, each op taking the
\* slots the table gives it (1 for PUSH_NONVOL, ALLOC_SMALL, SET_FPREG; 2 for
\* ALLOC_LARGE(0), SAVE_NONVOL, SAVE_XMM128; 3 for ALLOC_LARGE(1),
\* SAVE_NONVOL_FAR, SAVE_XMM128_FAR), with the sizes 8*n+8, next slot * 8 and
\* the 32-bit value of the next two slots, and returns the ops in slot
\* order; it returns an error when the operand slots of an op would lie
\* past the end of the slots.
C38_DecodesBySlotCounts ==
    (pc = "called" /\ args.fn = "get_unwind_ops") =>
        LET read == TableOps(args.code_slots, 1)
        IN /\ read.kind = "ops" => result = Returned(Ok(read.ops))
           /\ read.kind = "incomplete" => ~result.val.ok

\* C38 witness: a two-slot op and a one-slot op after it, decoded in that
\* order.
C38_Witness ==
    /\ pc = "called"
    /\ args.fn = "get_unwind_ops"
    /\ args.code_slots = <<Slot(2, UWOP_SAVE_NONVOL, 1), 32767, Slot(2, UWOP_PUSH_NONVOL, 0)>>
    /\ result = Returned(Ok(<<UnwindCode(2, SaveNonVolatile(1, 32767)),
                              UnwindCode(2, PushNonVolatile(0))>>))

\* `bp m!e` and then `bl` at a stop, in a Process whose module list holds
\* "hello.dll" at [100, 120) without PDB and with up to MaxExports exports:
\* alone, before another module, or behind a module that the debuggee had at
\* the same base and has unloaded (the list keeps it).
SymbolModuleLists ==
    UNION {{<<m>>, <<m, OtherModule>>, <<UnloadedModule, m>>} :
              m \in {n \in NamedModules : ~n.pdb.some}}

InitSymbols ==
    /\ pc = "repl"
    /\ args \in {[fn |-> "bp", expr |-> Symbol(s), register_context |-> EvalRegisters,
                  overflow_checks |-> TRUE] :
                    s \in {"hello.dll!f", "hello.dll!g", "hello!f"}}
    /\ module_list \in SymbolModuleLists
    /\ breakpoints = <<>>
    /\ os_ctx = [t \in Tids |-> ZeroContext]
    /\ ctx = ZeroContext
    /\ os_event = ReplStop
    /\ debug_event = wait_for_next_debug_event(ReplStop)
    /\ continue_status = DBG_EXCEPTION_NOT_HANDLED
    /\ is_exit = FALSE
    /\ bp_index = None
    /\ thread_list = <<MainTid>>
    /\ os_threads = {MainTid}
    /\ announced = {MainTid}
    /\ expect_step_exception = FALSE
    /\ written = {}
    /\ last_cmd = NoCmd
    /\ panic_msg = "none"
    /\ nevents = 2
    /\ ncmds = 0
    /\ os_images = {[base |-> 100, size |-> 20, exe |-> TRUE]}
    /\ last_continue = NotCalled
    /\ result = NotCalled

\* CommandExpr::ListBreakpoints as the command after bp
CmdListBreakpointsAfter ==
    /\ pc = "repl" /\ last_cmd = Cmd("bp", TRUE)
    /\ result' = Printed(list_breakpoints(
                     [k \in 1..Len(breakpoints) |->
                         [id |-> breakpoints[k].id,
                          addr |-> AddressOf(breakpoints[k].addr)]],
                     module_list))
    /\ last_cmd' = Cmd("bl", TRUE)
    /\ UNCHANGED <<pc, breakpoints, thread_list, module_list, expect_step_exception,
                   os_event, debug_event, ctx, continue_status, is_exit, bp_index,
                   os_threads, os_ctx, announced, written, panic_msg,
                   nevents, ncmds, os_images, last_continue, args>>

NextSymbols == CmdSetBreakpointExpr \/ CmdListBreakpointsAfter

SpecSymbols == InitSymbols /\ [][NextSymbols]_vars

\* the command was `bp m!e` for the module m and its export at position i,
\* which has a name and an RVA target inside the module that no earlier
\* export has
BreakpointOnExport(m, i) ==
    /\ ~m.pdb.some
    /\ m.exports[i].name.some
    /\ m.exports[i].target.rva
    /\ contains_address(m, m.exports[i].target.addr)
    /\ \A j \in 1..(i - 1) : m.exports[j].target # m.exports[i].target
    /\ args.expr = Symbol(m.name \o "!" \o m.exports[i].name.val)

\* C39: for a module m without PDB and a named export e whose target is an
\* RVA inside the module's range and not the target of an earlier export,
\* resolve_address_to_name(resolve_name_to_address("m!e")) is "m!e", and
\* `bl` after `bp m!e` lists the breakpoint with the symbol m!e.
C39_ExportNameRoundTrip ==
    last_cmd = Cmd("bl", TRUE) =>
        \A k \in 1..Len(module_list) :
            \A i \in 1..Len(module_list[k].exports) :
                BreakpointOnExport(module_list[k], i) =>
                    /\ resolve_name_to_address(args.expr.sym, module_list).ok
                    /\ resolve_address_to_name(
                           resolve_name_to_address(args.expr.sym, module_list).val,
                           module_list) = Some(args.expr.sym)
                    /\ Len(result.val.printed) = 1
                    /\ result.val.printed[1].sym = Some(args.expr.sym)
====
